---- MODULE Spec2Model ----
(***************************************************************************)
(* Batch crop orchestration of face-crop-app: the Pinia crop store         *)
(* (src/src/stores/cropStore.ts), the BatchProcessorUI component           *)
(* (src/src/components/BatchProcessorUI.vue, current version, lines 1-366) *)
(* with its worker pool, the step flow of App.vue, and the geometry of     *)
(* cropUtils.ts (src/unnamed/part_004).                                    *)
(*                                                                         *)
(* Pixel coordinates computed by calculatePixelCropBox are kept exact by   *)
(* carrying them in hundredths of a pixel (PX = 100): a percentage times   *)
(* an integer face dimension is an integer number of hundredths.           *)
(***************************************************************************)
EXTENDS Integers, Sequences, FiniteSets, TLC

\* ---------------------------------------------------------------- bounds
MaxImages == 2
MaxFaces == 2
MaxIds == 2
MAX_WORKERS == 2

\* ------------------------------------------------------- environment data
PX == 100
ImgW == 4
ImgH == 4
FileNames == {"a.b.png", "c"}

DefaultCropParams ==
  [leftPaddingPercent |-> 50, rightPaddingPercent |-> 50,
   topPaddingPercent |-> 25, bottomPaddingPercent |-> 25]
ZeroCropParams ==
  [leftPaddingPercent |-> 0, rightPaddingPercent |-> 0,
   topPaddingPercent |-> 0, bottomPaddingPercent |-> 0]
ParamChoices == {DefaultCropParams, ZeroCropParams}

\* Boxes the detector may report: one inside the image, one starting at the
\* right edge (its crop box is empty unless left padding pulls it inside).
GoodFace == [x |-> 1, y |-> 1, width |-> 2, height |-> 2]
EdgeFace == [x |-> 4, y |-> 1, width |-> 2, height |-> 2]
FaceBoxes == {GoodFace, EdgeFace}

RECURSIVE SeqsUpTo(_, _)
SeqsUpTo(S, n) ==
  IF n = 0 THEN {<<>>}
  ELSE LET shorter == SeqsUpTo(S, n - 1)
       IN shorter \cup {Append(s, e) : s \in {t \in shorter : Len(t) = n - 1}, e \in S}

Max(a, b) == IF a >= b THEN a ELSE b
Min(a, b) == IF a <= b THEN a ELSE b

\* ------------------------------------------------------------- cropUtils
\* null result of calculatePixelCropBox
NoBox == [x |-> 0 - 1, y |-> 0 - 1, width |-> 0, height |-> 0]

\* lines 190-238 without the clamp of the right edge at the image width
calculatePixelCropBox_NoRightClamp(faceBoundingBox, percentageParams, imageWidth, imageHeight) ==
  IF faceBoundingBox.width <= 0 \/ faceBoundingBox.height <= 0 THEN NoBox
  ELSE
    LET faceX == faceBoundingBox.x
        faceY == faceBoundingBox.y
        faceWidth == faceBoundingBox.width
        faceHeight == faceBoundingBox.height
        pxLeftPadding == percentageParams.leftPaddingPercent * faceWidth
        pxRightPadding == percentageParams.rightPaddingPercent * faceWidth
        pxTopPadding == percentageParams.topPaddingPercent * faceHeight
        pxBottomPadding == percentageParams.bottomPaddingPercent * faceHeight
        desiredX1 == PX * faceX - pxLeftPadding
        desiredY1 == PX * faceY - pxTopPadding
        desiredX2 == PX * (faceX + faceWidth) + pxRightPadding
        desiredY2 == PX * (faceY + faceHeight) + pxBottomPadding
        finalX1 == Max(0, desiredX1)
        finalY1 == Max(0, desiredY1)
        finalX2 == desiredX2
        finalY2 == Min(PX * imageHeight, desiredY2)
        finalWidth == finalX2 - finalX1
        finalHeight == finalY2 - finalY1
    IN IF finalWidth <= 0 \/ finalHeight <= 0 THEN NoBox
       ELSE [x |-> finalX1, y |-> finalY1, width |-> finalWidth, height |-> finalHeight]

\* lines 190-238 with the top padding taken from the width of the face
calculatePixelCropBox_TopFromWidth(faceBoundingBox, percentageParams, imageWidth, imageHeight) ==
  IF faceBoundingBox.width <= 0 \/ faceBoundingBox.height <= 0 THEN NoBox
  ELSE
    LET faceX == faceBoundingBox.x
        faceY == faceBoundingBox.y
        faceWidth == faceBoundingBox.width
        faceHeight == faceBoundingBox.height
        pxLeftPadding == percentageParams.leftPaddingPercent * faceWidth
        pxRightPadding == percentageParams.rightPaddingPercent * faceWidth
        pxTopPadding == percentageParams.topPaddingPercent * faceWidth
        pxBottomPadding == percentageParams.bottomPaddingPercent * faceHeight
        desiredX1 == PX * faceX - pxLeftPadding
        desiredY1 == PX * faceY - pxTopPadding
        desiredX2 == PX * (faceX + faceWidth) + pxRightPadding
        desiredY2 == PX * (faceY + faceHeight) + pxBottomPadding
        finalX1 == Max(0, desiredX1)
        finalY1 == Max(0, desiredY1)
        finalX2 == Min(PX * imageWidth, desiredX2)
        finalY2 == Min(PX * imageHeight, desiredY2)
        finalWidth == finalX2 - finalX1
        finalHeight == finalY2 - finalY1
    IN IF finalWidth <= 0 \/ finalHeight <= 0 THEN NoBox
       ELSE [x |-> finalX1, y |-> finalY1, width |-> finalWidth, height |-> finalHeight]

\* lines 190-238; lengths are in hundredths of a pixel
calculatePixelCropBox(faceBoundingBox, percentageParams, imageWidth, imageHeight) ==
  IF faceBoundingBox.width <= 0 \/ faceBoundingBox.height <= 0 THEN NoBox
  ELSE
    LET faceX == faceBoundingBox.x
        faceY == faceBoundingBox.y
        faceWidth == faceBoundingBox.width
        faceHeight == faceBoundingBox.height
        pxLeftPadding == percentageParams.leftPaddingPercent * faceWidth
        pxRightPadding == percentageParams.rightPaddingPercent * faceWidth
        pxTopPadding == percentageParams.topPaddingPercent * faceHeight
        pxBottomPadding == percentageParams.bottomPaddingPercent * faceHeight
        desiredX1 == PX * faceX - pxLeftPadding
        desiredY1 == PX * faceY - pxTopPadding
        desiredX2 == PX * (faceX + faceWidth) + pxRightPadding
        desiredY2 == PX * (faceY + faceHeight) + pxBottomPadding
        finalX1 == Max(0, desiredX1)
        finalY1 == Max(0, desiredY1)
        finalX2 == Min(PX * imageWidth, desiredX2)
        finalY2 == Min(PX * imageHeight, desiredY2)
        finalWidth == finalX2 - finalX1
        finalHeight == finalY2 - finalY1
    IN IF finalWidth <= 0 \/ finalHeight <= 0 THEN NoBox
       ELSE [x |-> finalX1, y |-> finalY1, width |-> finalWidth, height |-> finalHeight]

\* ------------------------------------------- cropUtils in floating point
\* A JavaScript number is a binary floating-point value: the result of every
\* operation is rounded to the nearest representable value, ties to even.
\* Here a value has MantissaBits significant bits and is a multiple of
\* 2^-FractionBits; it is written as the integer number of these units.
MantissaBits == 10
FractionBits == 10

RECURSIVE Pow2(_)
Pow2(k) == IF k = 0 THEN 1 ELSE 2 * Pow2(k - 1)

\* the number 1
Unit == Pow2(FractionBits)

Abs(v) == IF v < 0 THEN 0 - v ELSE v

\* the distance between neighbouring representable values around a / d, from
\* s on
RECURSIVE Spacing(_, _, _)
Spacing(a, d, s) ==
  IF a < Pow2(MantissaBits) * d * s THEN s ELSE Spacing(a, d, 2 * s)

\* n / d rounded to the nearest integer, ties to even
RoundDiv(n, d) ==
  LET q == n \div d
      r == n % d
  IN IF 2 * r < d THEN q
     ELSE IF 2 * r > d THEN q + 1
     ELSE IF q % 2 = 0 THEN q ELSE q + 1

\* the representable value nearest to n / d units
Fl(n, d) == LET s == Spacing(Abs(n), d, 1) IN RoundDiv(n, d * s) * s

\* a whole number
ToFl(n) == n * Unit

fadd(a, b) == Fl(a + b, 1)
fsub(a, b) == Fl(a - b, 1)
fmul(a, b) == Fl(a * b, Unit)
fdiv(a, b) == Fl(a * Unit, b)

\* lines 190-238 as above, every operation rounded
calculatePixelCropBoxFl(faceBoundingBox, percentageParams, imageWidth, imageHeight) ==
  IF faceBoundingBox.width <= 0 \/ faceBoundingBox.height <= 0 THEN NoBox
  ELSE
    LET faceX == faceBoundingBox.x
        faceY == faceBoundingBox.y
        faceWidth == faceBoundingBox.width
        faceHeight == faceBoundingBox.height
        pxLeftPadding ==
          fmul(fdiv(percentageParams.leftPaddingPercent, ToFl(100)), faceWidth)
        pxRightPadding ==
          fmul(fdiv(percentageParams.rightPaddingPercent, ToFl(100)), faceWidth)
        pxTopPadding ==
          fmul(fdiv(percentageParams.topPaddingPercent, ToFl(100)), faceHeight)
        pxBottomPadding ==
          fmul(fdiv(percentageParams.bottomPaddingPercent, ToFl(100)), faceHeight)
        desiredX1 == fsub(faceX, pxLeftPadding)
        desiredY1 == fsub(faceY, pxTopPadding)
        desiredX2 == fadd(fadd(faceX, faceWidth), pxRightPadding)
        desiredY2 == fadd(fadd(faceY, faceHeight), pxBottomPadding)
        finalX1 == Max(0, desiredX1)
        finalY1 == Max(0, desiredY1)
        finalX2 == Min(imageWidth, desiredX2)
        finalY2 == Min(imageHeight, desiredY2)
        finalWidth == fsub(finalX2, finalX1)
        finalHeight == fsub(finalY2, finalY1)
    IN IF finalWidth <= 0 \/ finalHeight <= 0 THEN NoBox
       ELSE [x |-> finalX1, y |-> finalY1, width |-> finalWidth, height |-> finalHeight]

\* lines 162-188 with the right padding measured from the left edge of the
\* face
calculatePercentageParamsFromPixelBox_RightFromFaceX(faceBoundingBox, pixelCropBox) ==
  LET faceX == faceBoundingBox.x
      faceY == faceBoundingBox.y
      faceWidth == faceBoundingBox.width
      faceHeight == faceBoundingBox.height
      pxLeftPadding == fsub(faceX, pixelCropBox.x)
      pxRightPadding == fsub(fadd(pixelCropBox.x, pixelCropBox.width), faceX)
      pxTopPadding == fsub(faceY, pixelCropBox.y)
      pxBottomPadding == fsub(fadd(pixelCropBox.y, pixelCropBox.height),
                              fadd(faceY, faceHeight))
      leftPaddingPercent ==
        IF faceWidth > 0 THEN fmul(fdiv(pxLeftPadding, faceWidth), ToFl(100)) ELSE 0
      rightPaddingPercent ==
        IF faceWidth > 0 THEN fmul(fdiv(pxRightPadding, faceWidth), ToFl(100)) ELSE 0
      topPaddingPercent ==
        IF faceHeight > 0 THEN fmul(fdiv(pxTopPadding, faceHeight), ToFl(100)) ELSE 0
      bottomPaddingPercent ==
        IF faceHeight > 0 THEN fmul(fdiv(pxBottomPadding, faceHeight), ToFl(100)) ELSE 0
  IN [leftPaddingPercent |-> Max(0, leftPaddingPercent),
      rightPaddingPercent |-> Max(0, rightPaddingPercent),
      topPaddingPercent |-> Max(0, topPaddingPercent),
      bottomPaddingPercent |-> Max(0, bottomPaddingPercent)]

\* lines 162-188: the padding a crop box has around a face, in percent of the
\* face, every operation rounded
calculatePercentageParamsFromPixelBox(faceBoundingBox, pixelCropBox) ==
  LET faceX == faceBoundingBox.x
      faceY == faceBoundingBox.y
      faceWidth == faceBoundingBox.width
      faceHeight == faceBoundingBox.height
      pxLeftPadding == fsub(faceX, pixelCropBox.x)
      pxRightPadding == fsub(fadd(pixelCropBox.x, pixelCropBox.width),
                             fadd(faceX, faceWidth))
      pxTopPadding == fsub(faceY, pixelCropBox.y)
      pxBottomPadding == fsub(fadd(pixelCropBox.y, pixelCropBox.height),
                              fadd(faceY, faceHeight))
      leftPaddingPercent ==
        IF faceWidth > 0 THEN fmul(fdiv(pxLeftPadding, faceWidth), ToFl(100)) ELSE 0
      rightPaddingPercent ==
        IF faceWidth > 0 THEN fmul(fdiv(pxRightPadding, faceWidth), ToFl(100)) ELSE 0
      topPaddingPercent ==
        IF faceHeight > 0 THEN fmul(fdiv(pxTopPadding, faceHeight), ToFl(100)) ELSE 0
      bottomPaddingPercent ==
        IF faceHeight > 0 THEN fmul(fdiv(pxBottomPadding, faceHeight), ToFl(100)) ELSE 0
  IN [leftPaddingPercent |-> Max(0, leftPaddingPercent),
      rightPaddingPercent |-> Max(0, rightPaddingPercent),
      topPaddingPercent |-> Max(0, topPaddingPercent),
      bottomPaddingPercent |-> Max(0, bottomPaddingPercent)]

\* ------------------------------------------------------------- cropStore
\* A store value is the record of the Pinia state fields the batch uses.
NoText == <<>>

NewImage(id, name) ==
  [id |-> id, name |-> name, status |-> "pending", croppedBlobs |-> <<>>,
   skippedReason |-> NoText, errorMessage |-> NoText]

InitialStore ==
  [definedCropParams |-> DefaultCropParams,
   batchImages |-> <<>>,
   isProcessingBatch |-> FALSE,
   successfullyCroppedImageCount |-> 0,
   totalIndividualCropsMade |-> 0,
   skippedImageInfos |-> <<>>]

\* Array.prototype.find: index of the first image with this id, 0 if none
FindImage(imgs, id) ==
  IF \E i \in 1..Len(imgs) : imgs[i].id = id
  THEN CHOOSE i \in 1..Len(imgs) :
         imgs[i].id = id /\ \A j \in 1..(i - 1) : imgs[j].id # id
  ELSE 0

setCropParams(s, params) == [s EXCEPT !.definedCropParams = params]

addBatchImages(s, firstId, files) ==
  [s EXCEPT !.batchImages =
     @ \o [k \in 1..Len(files) |-> NewImage(firstId + k - 1, files[k])]]

\* lines 83-88 without the clause that lets a late error override a final status
StatusAfterUpdate_NoLateError(old, status) ==
  IF old = "pending" \/ old = "processing"
     \/ (old # "error" /\ (status = "cropped" \/ status = "skipped"))
  THEN status ELSE old

\* lines 83-90 with the assignment of line 89 made unconditional
StatusAfterUpdate_Unconditional(old, status) == status

StatusAfterUpdate(old, status) ==
  IF old = "pending" \/ old = "processing" \/ status = "error"
     \/ (old # "error" /\ (status = "cropped" \/ status = "skipped"))
  THEN status ELSE old

\* updateBatchImageStatus discarding the outputs of an image it marks error
updateBatchImageStatus_ErrorDropsOutputs(s, id, status, skippedReason, errorMessage) ==
  LET i == FindImage(s.batchImages, id) IN
  IF i = 0 THEN s
  ELSE
    LET image == s.batchImages[i]
        info == [filename |-> image.name, reason |-> skippedReason]
        known == \E k \in 1..Len(s.skippedImageInfos) : s.skippedImageInfos[k] = info
    IN [s EXCEPT
          !.batchImages[i].status = StatusAfterUpdate(image.status, status),
          !.batchImages[i].croppedBlobs = IF status = "error" THEN <<>> ELSE @,
          !.batchImages[i].skippedReason =
             IF skippedReason # NoText THEN skippedReason ELSE @,
          !.batchImages[i].errorMessage =
             IF errorMessage # NoText THEN errorMessage ELSE @,
          !.skippedImageInfos =
             IF status = "skipped" /\ skippedReason # NoText /\ ~known
             THEN Append(@, info) ELSE @]

updateBatchImageStatus(s, id, status, skippedReason, errorMessage) ==
  LET i == FindImage(s.batchImages, id) IN
  IF i = 0 THEN s
  ELSE
    LET image == s.batchImages[i]
        info == [filename |-> image.name, reason |-> skippedReason]
        known == \E k \in 1..Len(s.skippedImageInfos) : s.skippedImageInfos[k] = info
    IN [s EXCEPT
          !.batchImages[i].status = StatusAfterUpdate(image.status, status),
          !.batchImages[i].skippedReason =
             IF skippedReason # NoText THEN skippedReason ELSE @,
          !.batchImages[i].errorMessage =
             IF errorMessage # NoText THEN errorMessage ELSE @,
          !.skippedImageInfos =
             IF status = "skipped" /\ skippedReason # NoText /\ ~known
             THEN Append(@, info) ELSE @]

\* addCroppedBlobToImage dropping the blob of an image already marked error
addCroppedBlobToImage_SkipErrored(s, imageId, filenameSuffix) ==
  LET i == FindImage(s.batchImages, imageId) IN
  IF i = 0 \/ s.batchImages[i].status = "error" THEN s
  ELSE [s EXCEPT
          !.batchImages[i].croppedBlobs = Append(@, [filenameSuffix |-> filenameSuffix]),
          !.totalIndividualCropsMade = @ + 1,
          !.batchImages[i].status =
             IF @ # "error" /\ @ # "skipped" THEN "cropped" ELSE @]

\* addCroppedBlobToImage marking the image cropped whatever its status
addCroppedBlobToImage_AlwaysCropped(s, imageId, filenameSuffix) ==
  LET i == FindImage(s.batchImages, imageId) IN
  IF i = 0 THEN s
  ELSE [s EXCEPT
          !.batchImages[i].croppedBlobs = Append(@, [filenameSuffix |-> filenameSuffix]),
          !.totalIndividualCropsMade = @ + 1,
          !.batchImages[i].status = "cropped"]

addCroppedBlobToImage(s, imageId, filenameSuffix) ==
  LET i == FindImage(s.batchImages, imageId) IN
  IF i = 0 THEN s
  ELSE [s EXCEPT
          !.batchImages[i].croppedBlobs = Append(@, [filenameSuffix |-> filenameSuffix]),
          !.totalIndividualCropsMade = @ + 1,
          !.batchImages[i].status =
             IF @ # "error" /\ @ # "skipped" THEN "cropped" ELSE @]

\* startBatchProcessing leaving the summary of the previous run in place
startBatchProcessing_KeepSummary(s) ==
  [s EXCEPT
     !.isProcessingBatch = TRUE,
     !.totalIndividualCropsMade = 0,
     !.batchImages = [k \in 1..Len(@) |->
        [@[k] EXCEPT !.status = "pending", !.croppedBlobs = <<>>,
                     !.skippedReason = NoText, !.errorMessage = NoText]]]

\* startBatchProcessing leaving the status of the previous run in place
startBatchProcessing_KeepStatus(s) ==
  [s EXCEPT
     !.isProcessingBatch = TRUE,
     !.successfullyCroppedImageCount = 0,
     !.totalIndividualCropsMade = 0,
     !.skippedImageInfos = <<>>,
     !.batchImages = [k \in 1..Len(@) |->
        [@[k] EXCEPT !.croppedBlobs = <<>>,
                     !.skippedReason = NoText, !.errorMessage = NoText]]]

startBatchProcessing(s) ==
  [s EXCEPT
     !.isProcessingBatch = TRUE,
     !.successfullyCroppedImageCount = 0,
     !.totalIndividualCropsMade = 0,
     !.skippedImageInfos = <<>>,
     !.batchImages = [k \in 1..Len(@) |->
        [@[k] EXCEPT !.status = "pending", !.croppedBlobs = <<>>,
                     !.skippedReason = NoText, !.errorMessage = NoText]]]

\* finishBatchProcessing counting every image that has an output
finishBatchProcessing_CountAllWithOutputs(s) ==
  [s EXCEPT
     !.isProcessingBatch = FALSE,
     !.successfullyCroppedImageCount =
        Cardinality({k \in 1..Len(s.batchImages) :
           Len(s.batchImages[k].croppedBlobs) > 0})]

finishBatchProcessing(s) ==
  [s EXCEPT
     !.isProcessingBatch = FALSE,
     !.successfullyCroppedImageCount =
        Cardinality({k \in 1..Len(s.batchImages) :
           s.batchImages[k].status = "cropped"
           /\ Len(s.batchImages[k].croppedBlobs) > 0})]

\* clearBatch without the reset of line 162
clearBatch_KeepsTotal(s) ==
  [s EXCEPT
     !.batchImages = <<>>,
     !.successfullyCroppedImageCount = 0,
     !.skippedImageInfos = <<>>,
     !.isProcessingBatch = FALSE]

clearBatch(s) ==
  [s EXCEPT
     !.batchImages = <<>>,
     !.successfullyCroppedImageCount = 0,
     !.totalIndividualCropsMade = 0,
     !.skippedImageInfos = <<>>,
     !.isProcessingBatch = FALSE]

\* -------------------------------------------------------- cropWorker.js
\* What can go wrong inside one worker request (part_001, lines 23-91).
WorkerEnvs == {"ok", "decodeFails", "noContext", "encodeFails"}

cropWorker(request, env) ==
  LET tags == [originalFileId |-> request.originalFileId,
               faceIndex |-> request.faceIndex,
               filename |-> request.filename]
      invalid == request.sourceWidth <= 0 \/ request.sourceHeight <= 0
                 \/ request.outputWidth <= 0 \/ request.outputHeight <= 0
  IN IF request.imageFile /\ env = "ok" /\ ~invalid
     THEN [status |-> "cropped", blob |-> TRUE] @@ tags
     ELSE [status |-> "error", blob |-> FALSE] @@ tags

\* The same handler step by step, for one request: `k` is the state of one
\* invocation of self.onmessage (its position, the request, what goes wrong
\* in it, and the messages it has posted so far).
NoWork == [pc |-> "idle", request |-> <<>>, env |-> "ok", posted |-> <<>>]

\* self.postMessage, lines 24, 69-75 and 84-90
WorkerPost(k, status) ==
  [k EXCEPT !.pc = "done",
            !.posted = Append(@, [status |-> status, blob |-> (status = "cropped"),
                                  originalFileId |-> k.request.originalFileId,
                                  faceIndex |-> k.request.faceIndex,
                                  filename |-> k.request.filename])]

\* lines 22-26 returning without a message when the image is missing
OnReceive_SilentReturn(k) ==
  IF ~k.request.imageFile THEN [k EXCEPT !.pc = "done"]
  ELSE [k EXCEPT !.pc = "decoding"]

\* lines 2-31: up to the await of createImageBitmap
OnReceive(k) ==
  IF ~k.request.imageFile THEN WorkerPost(k, "error")
  ELSE [k EXCEPT !.pc = "decoding"]

\* lines 31-66 without the test of the crop dimensions
OnDecoded_NoDimensionCheck(k) ==
  IF k.env = "decodeFails" THEN WorkerPost(k, "error")
  ELSE IF k.env = "noContext" THEN WorkerPost(k, "error")
  ELSE [k EXCEPT !.pc = "encoding"]

\* lines 31-66: createImageBitmap settles; dimensions, canvas, context and
\* drawImage, up to the await of convertToBlob; a throw goes to the catch
\* block of lines 77-91
OnDecoded(k) ==
  IF k.env = "decodeFails" THEN WorkerPost(k, "error")
  ELSE IF k.request.sourceWidth <= 0 \/ k.request.sourceHeight <= 0
          \/ k.request.outputWidth <= 0 \/ k.request.outputHeight <= 0
  THEN WorkerPost(k, "error")
  ELSE IF k.env = "noContext" THEN WorkerPost(k, "error")
  ELSE [k EXCEPT !.pc = "encoding"]

\* lines 66-91: convertToBlob settles
OnEncoded(k) ==
  IF k.env = "encodeFails" THEN WorkerPost(k, "error")
  ELSE WorkerPost(k, "cropped")

\* requests a worker may be sent: also ones processNextTaskFromQueue never
\* builds (no image, empty or negative crop box)
Dims == {0 - PX, 0, PX}
Requests ==
  [imageFile : BOOLEAN, sourceX : {0}, sourceY : {0},
   sourceWidth : Dims, sourceHeight : Dims,
   outputWidth : Dims, outputHeight : Dims,
   filename : FileNames, originalFileId : 1..MaxIds, faceIndex : 0..(MaxFaces - 1)]

\* ------------------------------------------------------ BatchProcessorUI
NoFacesReason == <<"No faces detected in image.">>
AllInvalidReason == <<"All detected faces resulted in invalid or failed crops.">>
AnalyzeError == <<"Failed to analyze image">>
CropFailedError(faceIndex) == <<"Face", faceIndex + 1, "crop failed">>

VARIABLES
  currentStep,          \* App.vue: 1 define crop, 2 upload batch, 3 process
  store,                \* the Pinia crop store
  nextId,               \* ids handed out by addBatchImages are never reused
  pc,                   \* "unmounted", "idle", "preparing" (processBatch
                        \* suspended in createCropTaskQueue) or "detached"
                        \* (the same, in a component unmounted meanwhile)
  prepIndex,            \* position of the for-of loop of createCropTaskQueue
  tasks,                \* local `tasks` of createCropTaskQueue
  workers,              \* one entry per Worker: the requests posted to it
                        \* and not yet answered
  workersInitialized,
  cropTaskQueue,
  activeWorkersCount,
  totalTasksInBatch,
  faceDetector,         \* faceDetector.ts: the module's detector is set
  wk,                   \* cropWorker.js: one invocation of self.onmessage
  stale,                \* processBatch calls of components unmounted while
                        \* they were suspended in createCropTaskQueue
  geo,                  \* cropUtils.ts: one application of the geometry
  det,                  \* faceDetector.ts: one call of detectAllFaces
  zipped,               \* the entries handleDownloadZip handed to createZip
  call,                 \* cropStore.ts: one call of a store action
  finishCount,          \* history: calls of finishBatchProcessing in this run
  acct                  \* history: per image id of the run, faces detected,
                        \* faces without a crop box, results handled

vars == <<currentStep, store, nextId, pc, prepIndex, tasks, workers,
          workersInitialized, cropTaskQueue, activeWorkersCount,
          totalTasksInBatch, faceDetector, wk, stale, geo, det, zipped,
          call, finishCount, acct>>

\* what the handlers of the mounted component never touch
aside == <<wk, stale, geo, det, zipped, call>>

NoGeometry == [pc |-> "idle"]
NoDetection == [pc |-> "idle"]
NotZipped == [made |-> FALSE, files |-> <<>>]
NoCall == [action |-> "none"]

\* analysis: "none" (not analysed yet), "loadFailed", "noDetector" (the
\* detector could not be initialised), "noFaces" or "faces"
NoAcct == [analysis |-> "none", totalFaces |-> 0, skippedLocally |-> 0,
           tasksCreated |-> 0, reportedOk |-> 0, reportedErr |-> 0,
           faulted |-> 0]

\* the application after construction, no worker request under way
AppInit ==
  /\ currentStep = 1
  /\ store = InitialStore
  /\ nextId = 1
  /\ pc = "unmounted"
  /\ prepIndex = 0
  /\ tasks = <<>>
  /\ workers = <<>>
  /\ workersInitialized = FALSE
  /\ cropTaskQueue = <<>>
  /\ activeWorkersCount = 0
  /\ totalTasksInBatch = 0
  /\ faceDetector = FALSE
  /\ finishCount = 0
  /\ acct = <<>>

Init ==
  /\ AppInit
  /\ wk = NoWork
  /\ stale = <<>>
  /\ geo = NoGeometry
  /\ det = NoDetection
  /\ zipped = NotZipped /\ call = NoCall

\* The part of the state a synchronous stretch of the component works on.
Machine ==
  [store |-> store, cropTaskQueue |-> cropTaskQueue,
   activeWorkersCount |-> activeWorkersCount,
   totalTasksInBatch |-> totalTasksInBatch,
   workers |-> workers, finishCount |-> finishCount]

\* the forEach of lines 206-221 without its else-if branch: images left in
\* 'processing' are not closed out
RECURSIVE FinalPass_NoCloseOut(_, _)
FinalPass_NoCloseOut(s, k) ==
  IF k > Len(s.batchImages) THEN s
  ELSE
    LET img == s.batchImages[k]
        s1 == IF Len(img.croppedBlobs) > 0 /\ img.status # "error"
              THEN updateBatchImageStatus(s, img.id, "cropped", NoText, NoText)
              ELSE s
    IN CHOOSE r \in {FinalPass_NoCloseOut(v, k + 1) : v \in {s1}} : TRUE

\* the forEach of processNextTaskFromQueue, lines 206-221, from image k on
RECURSIVE FinalPass(_, _)
FinalPass(s, k) ==
  IF k > Len(s.batchImages) THEN s
  ELSE
    LET img == s.batchImages[k]
        s1 == IF Len(img.croppedBlobs) > 0
              THEN IF img.status # "error"
                   THEN updateBatchImageStatus(s, img.id, "cropped", NoText, NoText)
                   ELSE s
              ELSE IF img.status = "processing"
                   THEN updateBatchImageStatus(s, img.id, "skipped", AllInvalidReason, NoText)
                   ELSE s
    IN CHOOSE r \in {FinalPass(v, k + 1) : v \in {s1}} : TRUE

\* line 201 with the active-count test dropped
QueueDrained_QueueOnly(m) == Len(m.cropTaskQueue) = 0

\* line 201
QueueDrained(m) == Len(m.cropTaskQueue) = 0 /\ m.activeWorkersCount = 0

\* line 228
WorkerFree(m) == Len(m.cropTaskQueue) > 0 /\ m.activeWorkersCount < MAX_WORKERS

\* lines 202-224 without the forEach of lines 206-221
Finalize_NoFinalPass(m) ==
  [m EXCEPT !.store = finishBatchProcessing(m.store),
            !.finishCount = @ + 1]

\* lines 202-224: close out the image records and finish the batch
Finalize(m) ==
  [m EXCEPT !.store = finishBatchProcessing(FinalPass(m.store, 1)),
            !.finishCount = @ + 1]

\* lines 229-260 reading the head of the queue without removing it
Dispatch_HeadStaysQueued(m) ==
  LET taskProxy == Head(m.cropTaskQueue)
      workerIndex == (m.totalTasksInBatch - Len(m.cropTaskQueue)) % Len(m.workers)
  IN [m EXCEPT !.activeWorkersCount = @ + 1,
               !.workers[workerIndex + 1] = @ \cup {taskProxy}]

\* lines 229-260 taking the task at the end of the queue
Dispatch_TakesLast(m) ==
  LET taskProxy == m.cropTaskQueue[Len(m.cropTaskQueue)]
      rest == SubSeq(m.cropTaskQueue, 1, Len(m.cropTaskQueue) - 1)
      workerIndex == (m.totalTasksInBatch - Len(rest) - 1) % Len(m.workers)
  IN [m EXCEPT !.activeWorkersCount = @ + 1,
               !.cropTaskQueue = rest,
               !.workers[workerIndex + 1] = @ \cup {taskProxy}]

\* lines 229-260: take the head of the queue and post it to a worker
Dispatch(m) ==
  LET taskProxy == Head(m.cropTaskQueue)
      rest == Tail(m.cropTaskQueue)
      workerIndex == (m.totalTasksInBatch - Len(rest) - 1) % Len(m.workers)
  IN [m EXCEPT !.activeWorkersCount = @ + 1,
               !.cropTaskQueue = rest,
               !.workers[workerIndex + 1] = @ \cup {taskProxy}]

\* processNextTaskFromQueue posting everything that is queued, whatever the
\* number of busy workers
RECURSIVE DispatchWhileQueued(_)
DispatchWhileQueued(m) ==
  IF Len(m.cropTaskQueue) = 0 THEN m
  ELSE CHOOSE r \in {DispatchWhileQueued(v) : v \in {Dispatch(m)}} : TRUE

processNextTaskFromQueue_DispatchAll(m) ==
  IF QueueDrained(m) THEN Finalize(m) ELSE DispatchWhileQueued(m)

processNextTaskFromQueue(m) ==
  IF QueueDrained(m) THEN Finalize(m)
  ELSE IF WorkerFree(m) THEN Dispatch(m)
  ELSE m

\* the kick-off loop of processBatch, lines 284-286
RECURSIVE KickOff(_, _)
KickOff(m, n) ==
  IF n = 0 THEN m
  ELSE CHOOSE r \in {KickOff(v, n - 1) : v \in {processNextTaskFromQueue(m)}} : TRUE

\* lines 229-260 in a component unmounted meanwhile: workers is empty, so
\* workerIndex is NaN and workers[NaN] undefined; line 260 throws after the
\* count was incremented and the task taken from the queue
DispatchThrows(m) ==
  [m EXCEPT !.activeWorkersCount = @ + 1, !.cropTaskQueue = Tail(@)]

\* processBatch calling processNextTaskFromQueue once after
\* createCropTaskQueue instead of MAX_WORKERS times
KickOffLoop_Once(m) ==
  IF Len(m.workers) = 0 /\ ~QueueDrained(m) /\ WorkerFree(m)
  THEN DispatchThrows(m)
  ELSE KickOff(m, 1)

\* processBatch after createCropTaskQueue, lines 283-286; an exception
\* thrown by processNextTaskFromQueue ends the loop
KickOffLoop(m) ==
  IF Len(m.workers) = 0 /\ ~QueueDrained(m) /\ WorkerFree(m)
  THEN DispatchThrows(m)
  ELSE KickOff(m, MAX_WORKERS)

\* the inner loop of createCropTaskQueue, lines 151-176, from face i on
RECURSIVE FaceTasks(_, _, _, _)
FaceTasks(image, boxes, params, i) ==
  IF i >= Len(boxes) THEN <<>>
  ELSE
    LET pixelCropBox == calculatePixelCropBox(boxes[i + 1], params, ImgW, ImgH)
        later == FaceTasks(image, boxes, params, i + 1)
    IN IF pixelCropBox # NoBox
       THEN <<[imageFile |-> TRUE,
               sourceX |-> pixelCropBox.x, sourceY |-> pixelCropBox.y,
               sourceWidth |-> pixelCropBox.width,
               sourceHeight |-> pixelCropBox.height,
               outputWidth |-> pixelCropBox.width,
               outputHeight |-> pixelCropBox.height,
               filename |-> image.name, originalFileId |-> image.id,
               faceIndex |-> i]>> \o later
       ELSE later

\* history: faces of `boxes` for which calculatePixelCropBox returns null
InvalidFaces(boxes, params) ==
  Cardinality({i \in 1..Len(boxes) :
     calculatePixelCropBox(boxes[i], params, ImgW, ImgH) = NoBox})

SetMachine(m) ==
  /\ store' = m.store
  /\ cropTaskQueue' = m.cropTaskQueue
  /\ activeWorkersCount' = m.activeWorkersCount
  /\ totalTasksInBatch' = m.totalTasksInBatch
  /\ workers' = m.workers
  /\ finishCount' = m.finishCount

\* ------------------------------------------------------------ App.vue
\* CropDefinitionEditor (shown in step 1) writes the padding percentages.
SetCropParams ==
  /\ currentStep = 1
  /\ \E params \in ParamChoices :
       /\ params # store.definedCropParams
       /\ store' = setCropParams(store, params)
  /\ UNCHANGED <<currentStep, nextId, pc, prepIndex, tasks, workers,
                 workersInitialized, cropTaskQueue, activeWorkersCount,
                 totalTasksInBatch, faceDetector, aside, finishCount, acct>>

ProceedToBatchUpload ==
  /\ currentStep = 1
  /\ currentStep' = 2
  /\ UNCHANGED <<store, nextId, pc, prepIndex, tasks, workers,
                 workersInitialized, cropTaskQueue, activeWorkersCount,
                 totalTasksInBatch, faceDetector, aside, finishCount, acct>>

BackToDefineCrop ==
  /\ currentStep = 2
  /\ currentStep' = 1
  /\ UNCHANGED <<store, nextId, pc, prepIndex, tasks, workers,
                 workersInitialized, cropTaskQueue, activeWorkersCount,
                 totalTasksInBatch, faceDetector, aside, finishCount, acct>>

\* ImageUploader in batch mode (shown in step 2)
AddBatchImages ==
  /\ currentStep = 2
  /\ \E files \in SeqsUpTo(FileNames, MaxImages) :
       /\ Len(files) > 0
       /\ Len(store.batchImages) + Len(files) <= MaxImages
       /\ nextId + Len(files) - 1 <= MaxIds
       /\ store' = addBatchImages(store, nextId, files)
       /\ nextId' = nextId + Len(files)
  /\ UNCHANGED <<currentStep, pc, prepIndex, tasks, workers,
                 workersInitialized, cropTaskQueue, activeWorkersCount,
                 totalTasksInBatch, faceDetector, aside, finishCount, acct>>

\* proceedToProcessing: step 3 mounts BatchProcessorUI (onMounted runs
\* initializeWorkersFn; `created` says whether new Worker() succeeds; and
\* initializeFaceDetector, which may set the detector), then processBatch
\* runs up to its first suspension in createCropTaskQueue.
ProceedToProcessing ==
  /\ currentStep = 2
  /\ Len(store.batchImages) > 0
  /\ currentStep' = 3
  /\ \E created \in BOOLEAN :
       LET started == ~store.isProcessingBatch /\ created
           s1 == startBatchProcessing(store)
       IN /\ workers' = IF created THEN [w \in 1..MAX_WORKERS |-> {}] ELSE <<>>
          /\ workersInitialized' = created
          /\ cropTaskQueue' = <<>>
          /\ activeWorkersCount' = 0
          /\ totalTasksInBatch' = 0
          /\ tasks' = <<>>
          /\ IF started
             THEN /\ store' = updateBatchImageStatus(s1, s1.batchImages[1].id,
                                                     "processing", NoText, NoText)
                  /\ pc' = "preparing"
                  /\ prepIndex' = 1
                  /\ finishCount' = 0
                  /\ acct' = [k \in 1..Len(store.batchImages) |->
                                [id |-> store.batchImages[k].id] @@ NoAcct]
             ELSE /\ pc' = "idle"
                  /\ UNCHANGED <<store, prepIndex, finishCount, acct>>
  /\ \E initialized \in BOOLEAN : faceDetector' = (faceDetector \/ initialized)
  /\ UNCHANGED <<nextId, aside>>

\* the branches of the loop body of createCropTaskQueue that write the store,
\* lines 148-188
\* lines 148-188 reporting an image without faces as an error
AnalysisOutcome_NoFacesAsError(s, image, loaded, boxes) ==
  IF ~loaded
  THEN updateBatchImageStatus(s, image.id, "error", NoText, AnalyzeError)
  ELSE IF Len(boxes) > 0
  THEN s
  ELSE updateBatchImageStatus(s, image.id, "error", NoText, NoFacesReason)

\* lines 148-188 with a catch block that only logs the failure
AnalysisOutcome_SwallowLoadFailure(s, image, loaded, boxes) ==
  IF ~loaded
  THEN s
  ELSE IF Len(boxes) > 0
  THEN s
  ELSE updateBatchImageStatus(s, image.id, "skipped", NoFacesReason, NoText)

AnalysisOutcome(s, image, loaded, boxes) ==
  IF ~loaded
  THEN updateBatchImageStatus(s, image.id, "error", NoText, AnalyzeError)
  ELSE IF Len(boxes) > 0
  THEN s
  ELSE updateBatchImageStatus(s, image.id, "skipped", NoFacesReason, NoText)

\* lines 99 and 118: the request leaves worker w, one pool slot is free again
AnsweredByMessage(m, w, task) ==
  [m EXCEPT !.workers[w] = @ \ {task}, !.activeWorkersCount = @ - 1]

\* worker.onerror that only logs the fault
AnsweredByFault_LogOnly(m, w, task) ==
  [m EXCEPT !.workers[w] = @ \ {task}]

AnsweredByFault(m, w, task) ==
  [m EXCEPT !.workers[w] = @ \ {task}, !.activeWorkersCount = @ - 1]

\* history bookkeeping, keyed by image id
AcctIndex(id) ==
  IF \E k \in 1..Len(acct) : acct[k].id = id
  THEN CHOOSE k \in 1..Len(acct) : acct[k].id = id
  ELSE 0

\* createCropTaskQueue handing the tasks of each image to the queue and to a
\* free worker as soon as the image is analysed
PrepareImage_DispatchAsItGoes ==
  /\ pc \in {"preparing", "detached"}
  /\ \E loaded \in BOOLEAN, detector \in BOOLEAN,
        boxes \in SeqsUpTo(FaceBoxes, MaxFaces) :
       /\ loaded \/ (boxes = <<>> /\ detector = faceDetector)
       /\ faceDetector => detector
       /\ detector \/ boxes = <<>>
       /\ faceDetector' = detector
       /\ \E image \in {store.batchImages[prepIndex]} :
          \E s1 \in {AnalysisOutcome(store, image, loaded, boxes)} :
          \E newTasks \in {IF loaded
                           THEN FaceTasks(image, boxes, store.definedCropParams, 0)
                           ELSE <<>>} :
          \E k \in {AcctIndex(image.id)} :
             /\ acct' = IF k = 0 THEN acct
                        ELSE [acct EXCEPT
                               ![k].analysis =
                                  IF ~loaded THEN "loadFailed"
                                  ELSE IF ~detector THEN "noDetector"
                                  ELSE IF boxes = <<>> THEN "noFaces"
                                  ELSE "faces",
                               ![k].totalFaces = Len(boxes),
                               ![k].skippedLocally =
                                  InvalidFaces(boxes, store.definedCropParams),
                               ![k].tasksCreated = Len(newTasks)]
             /\ IF prepIndex < Len(store.batchImages)
                THEN /\ \E m0 \in {[Machine EXCEPT
                                       !.store = updateBatchImageStatus(
                                          s1, store.batchImages[prepIndex + 1].id,
                                          "processing", NoText, NoText),
                                       !.cropTaskQueue = @ \o newTasks,
                                       !.totalTasksInBatch = @ + Len(newTasks)]} :
                        \E m1 \in {IF ~QueueDrained(m0) /\ WorkerFree(m0)
                                     /\ Len(m0.workers) > 0
                                   THEN Dispatch(m0) ELSE m0} : SetMachine(m1)
                     /\ prepIndex' = prepIndex + 1
                     /\ tasks' = <<>>
                     /\ pc' = pc
                ELSE /\ \E m0 \in {[Machine EXCEPT
                                       !.store = s1,
                                       !.cropTaskQueue = @ \o newTasks,
                                       !.totalTasksInBatch = @ + Len(newTasks)]} :
                        \E m1 \in {KickOffLoop(m0)} : SetMachine(m1)
                     /\ prepIndex' = 0
                     /\ tasks' = <<>>
                     /\ pc' = IF pc = "detached" THEN "unmounted" ELSE "idle"
  /\ UNCHANGED <<currentStep, nextId, workersInitialized, aside>>

\* createCropTaskQueue resumes for the image at prepIndex: loadImageToElement
\* settles (`loaded`), detectAllFaces has a detector or not (`detector`:
\* the one set before, or the outcome of initializeFaceDetector) and returns
\* `boxes` (none: null), the crop boxes are computed; then the loop goes on to the next image, or the queue
\* is stored and processBatch runs its kick-off loop.
PrepareImage ==
  /\ pc \in {"preparing", "detached"}
  /\ \E loaded \in BOOLEAN, detector \in BOOLEAN,
        boxes \in SeqsUpTo(FaceBoxes, MaxFaces) :
       /\ loaded \/ (boxes = <<>> /\ detector = faceDetector)
       /\ faceDetector => detector
       /\ detector \/ boxes = <<>>
       /\ faceDetector' = detector
       /\ \E image \in {store.batchImages[prepIndex]} :
          \E s1 \in {AnalysisOutcome(store, image, loaded, boxes)} :
          \E newTasks \in {IF loaded
                           THEN FaceTasks(image, boxes, store.definedCropParams, 0)
                           ELSE <<>>} :
          \E k \in {AcctIndex(image.id)} :
             /\ acct' = IF k = 0 THEN acct
                        ELSE [acct EXCEPT
                               ![k].analysis =
                                  IF ~loaded THEN "loadFailed"
                                  ELSE IF ~detector THEN "noDetector"
                                  ELSE IF boxes = <<>> THEN "noFaces"
                                  ELSE "faces",
                               ![k].totalFaces = Len(boxes),
                               ![k].skippedLocally =
                                  InvalidFaces(boxes, store.definedCropParams),
                               ![k].tasksCreated = Len(newTasks)]
             /\ IF prepIndex < Len(store.batchImages)
                THEN /\ store' = updateBatchImageStatus(
                                    s1, store.batchImages[prepIndex + 1].id,
                                    "processing", NoText, NoText)
                     /\ prepIndex' = prepIndex + 1
                     /\ tasks' = tasks \o newTasks
                     /\ pc' = pc
                     /\ UNCHANGED <<cropTaskQueue, activeWorkersCount,
                                    totalTasksInBatch, workers, finishCount>>
                ELSE /\ \E m0 \in {[Machine EXCEPT
                                       !.store = s1,
                                       !.cropTaskQueue = tasks \o newTasks,
                                       !.totalTasksInBatch = Len(tasks \o newTasks)]} :
                        \E m1 \in {KickOffLoop(m0)} : SetMachine(m1)
                     /\ prepIndex' = 0
                     /\ tasks' = <<>>
                     /\ pc' = IF pc = "detached" THEN "unmounted" ELSE "idle"
  /\ UNCHANGED <<currentStep, nextId, workersInitialized, aside>>

\* lines 101-111: record the answer of a worker in the store
HandleResult(m, data) ==
  IF data.status = "cropped" /\ data.blob
  THEN [m EXCEPT !.store = addCroppedBlobToImage(
                    @, data.originalFileId, data.faceIndex + 1)]
  ELSE [m EXCEPT !.store = updateBatchImageStatus(
                    @, data.originalFileId, "error", NoText,
                    CropFailedError(data.faceIndex))]

\* worker.onmessage, lines 88-114: worker w answers request `task`
WorkerMessage ==
  /\ pc # "unmounted"
  /\ \E w \in 1..Len(workers) : \E task \in workers[w] : \E env \in WorkerEnvs :
       \E data \in {cropWorker(task, env)} :
       \E m0 \in {AnsweredByMessage(Machine, w, task)} :
       \E m1 \in {HandleResult(m0, data)} :
       \E m2 \in {processNextTaskFromQueue(m1)} :
       \E k \in {AcctIndex(data.originalFileId)} :
          /\ SetMachine(m2)
          /\ acct' = IF k = 0 THEN acct
                     ELSE IF data.status = "cropped"
                     THEN [acct EXCEPT ![k].reportedOk = @ + 1]
                     ELSE [acct EXCEPT ![k].reportedErr = @ + 1]
  /\ UNCHANGED <<currentStep, nextId, pc, prepIndex, tasks, workersInitialized,
                 faceDetector, aside>>

\* worker.onerror, lines 116-120: worker w faults while working on `task`,
\* which then gets no answer
WorkerError ==
  /\ pc # "unmounted"
  /\ \E w \in 1..Len(workers) : \E task \in workers[w] :
       \E m0 \in {AnsweredByFault(Machine, w, task)} :
       \E m1 \in {processNextTaskFromQueue(m0)} :
       \E k \in {AcctIndex(task.originalFileId)} :
          /\ SetMachine(m1)
          /\ acct' = IF k = 0 THEN acct
                     ELSE [acct EXCEPT ![k].faulted = @ + 1]
  /\ UNCHANGED <<currentStep, nextId, pc, prepIndex, tasks, workersInitialized,
                 faceDetector, aside>>

\* onUnmounted, lines 352-360; a processBatch suspended in
\* createCropTaskQueue is not cancelled
Unmounted ==
  /\ workers' = <<>>
  /\ cropTaskQueue' = <<>>
  /\ activeWorkersCount' = 0
  /\ workersInitialized' = FALSE
  /\ pc' = IF pc = "preparing" THEN "detached" ELSE "unmounted"

\* No batch run is under way: the user leaves step 3 between runs.
BetweenRuns == pc = "idle" /\ ~store.isProcessingBatch

\* "Back to Batch Upload" of step 3
BackToBatchUpload ==
  /\ currentStep = 3
  /\ BetweenRuns
  /\ currentStep' = 2
  /\ Unmounted
  /\ UNCHANGED <<store, nextId, prepIndex, tasks, totalTasksInBatch,
                 faceDetector, aside, finishCount, acct>>

\* resetApp ("Start Over", steps 2 and 3)
ResetApp ==
  /\ currentStep > 1
  /\ currentStep = 3 => BetweenRuns
  /\ store' = clearBatch(store)
  /\ currentStep' = 1
  /\ IF currentStep = 3
     THEN Unmounted
     ELSE UNCHANGED <<workers, cropTaskQueue, activeWorkersCount,
                      workersInitialized, pc>>
  /\ finishCount' = 0
  /\ acct' = <<>>
  /\ UNCHANGED <<nextId, prepIndex, tasks, totalTasksInBatch, faceDetector, aside>>

Next ==
  \/ SetCropParams
  \/ ProceedToBatchUpload
  \/ BackToDefineCrop
  \/ AddBatchImages
  \/ ProceedToProcessing
  \/ PrepareImage
  \/ WorkerMessage
  \/ WorkerError
  \/ BackToBatchUpload
  \/ ResetApp

Spec == Init /\ [][Next]_vars

\* Scheduling: the promises awaited by createCropTaskQueue settle, and every
\* request posted to a worker is answered by a result message or a fault.
LiveSpec ==
  /\ Init /\ [][Next]_vars
  /\ WF_vars(PrepareImage)
  /\ WF_vars(WorkerMessage \/ WorkerError)

\* ---------------------------------------- leaving step 3 during a run
\* "Back to Batch Upload" of step 3 while a batch run is under way
BackDuringRun ==
  /\ currentStep = 3
  /\ ~BetweenRuns
  /\ currentStep' = 2
  /\ Unmounted
  /\ UNCHANGED <<store, nextId, prepIndex, tasks, totalTasksInBatch,
                 faceDetector, aside, finishCount, acct>>

\* As Next, with step 3 left at any time. While the processBatch of an
\* unmounted component is still running the user does nothing else.
TeardownNext ==
  \/ BackDuringRun
  \/ PrepareImage
  \/ pc # "detached" /\ SetCropParams
  \/ pc # "detached" /\ ProceedToBatchUpload
  \/ pc # "detached" /\ BackToDefineCrop
  \/ pc # "detached" /\ AddBatchImages
  \/ pc # "detached" /\ ProceedToProcessing
  \/ WorkerMessage
  \/ WorkerError
  \/ BackToBatchUpload
  \/ pc # "detached" /\ ResetApp

TeardownSpec == Init /\ [][TeardownNext]_vars

\* Scheduling as in LiveSpec; the user is not obliged to do anything.
TeardownLiveSpec ==
  /\ Init /\ [][TeardownNext]_vars
  /\ WF_vars(PrepareImage)
  /\ WF_vars(WorkerMessage \/ WorkerError)

\* ------------------------------------------ starting over during a run
\* at most this many processBatch calls of unmounted components are followed
MaxStale == 1

\* "Start Over" (App.vue resetApp) while a batch run is under way: the store
\* is cleared and BatchProcessorUI unmounted; a processBatch suspended in
\* createCropTaskQueue keeps the array it iterates, its position and its
\* local tasks
ResetDuringRun ==
  /\ currentStep = 3
  /\ ~BetweenRuns
  /\ pc = "preparing" => Len(stale) < MaxStale
  /\ stale' = IF pc = "preparing"
              THEN Append(stale, [images |-> store.batchImages,
                                  index |-> prepIndex, tasks |-> tasks])
              ELSE stale
  /\ store' = clearBatch(store)
  /\ currentStep' = 1
  /\ workers' = <<>>
  /\ cropTaskQueue' = <<>>
  /\ activeWorkersCount' = 0
  /\ workersInitialized' = FALSE
  /\ pc' = "unmounted"
  /\ prepIndex' = 0
  /\ tasks' = <<>>
  /\ finishCount' = 0
  /\ acct' = <<>>
  /\ UNCHANGED <<nextId, totalTasksInBatch, faceDetector, wk, geo, det, zipped, call>>

\* the refs of a component that was unmounted: no worker, nothing queued
StaleMachine(s, queue) ==
  [store |-> s, cropTaskQueue |-> queue, activeWorkersCount |-> 0,
   totalTasksInBatch |-> Len(queue), workers |-> <<>>,
   finishCount |-> finishCount]

\* createCropTaskQueue, lines 127-190, and the end of processBatch, lines
\* 278-286, continued by the i-th processBatch of an unmounted component:
\* it analyses the next image of the array it was started with
StalePrepareImage ==
  /\ \E i \in 1..Len(stale) :
     \E loaded \in BOOLEAN, detector \in BOOLEAN,
        boxes \in SeqsUpTo(FaceBoxes, MaxFaces) :
       /\ loaded \/ (boxes = <<>> /\ detector = faceDetector)
       /\ faceDetector => detector
       /\ detector \/ boxes = <<>>
       /\ faceDetector' = detector
       /\ \E o \in {stale[i]} :
          \E image \in {o.images[o.index]} :
          \E s1 \in {AnalysisOutcome(store, image, loaded, boxes)} :
          \E newTasks \in {IF loaded
                           THEN FaceTasks(image, boxes, store.definedCropParams, 0)
                           ELSE <<>>} :
             IF o.index < Len(o.images)
             THEN /\ store' = updateBatchImageStatus(
                                 s1, o.images[o.index + 1].id,
                                 "processing", NoText, NoText)
                  /\ stale' = [stale EXCEPT ![i].index = @ + 1,
                                             ![i].tasks = @ \o newTasks]
                  /\ UNCHANGED finishCount
             ELSE /\ \E m1 \in {KickOffLoop(StaleMachine(s1, o.tasks \o newTasks))} :
                       /\ store' = m1.store
                       /\ finishCount' = m1.finishCount
                  /\ stale' = [j \in 1..(Len(stale) - 1) |->
                                 IF j < i THEN stale[j] ELSE stale[j + 1]]
  /\ UNCHANGED <<currentStep, nextId, pc, prepIndex, tasks, workers,
                 workersInitialized, cropTaskQueue, activeWorkersCount,
                 totalTasksInBatch, acct, wk, geo, det, zipped, call>>

\* As Next, with "Start Over" at any time.
RestartNext ==
  \/ Next
  \/ ResetDuringRun
  \/ StalePrepareImage

RestartSpec == Init /\ [][RestartNext]_vars

\* ------------------------------------- error events not tied to a task
\* at most this many error events that answer no request
MaxFaults == 1

\* worker.onerror, lines 116-120, for an error event of worker w that ends
\* none of its requests: the script of the worker failed to load, or an
\* error was raised in it beside the handling of a request. The handler
\* does not look at what the worker was given.
WorkerErrorEvent ==
  /\ pc # "unmounted"
  /\ activeWorkersCount > 0 - MaxFaults
  /\ \E w \in 1..Len(workers) :
     \E m0 \in {[Machine EXCEPT !.activeWorkersCount = @ - 1]} :
     \E m1 \in {processNextTaskFromQueue(m0)} :
        SetMachine(m1)
  /\ UNCHANGED <<currentStep, nextId, pc, prepIndex, tasks, workersInitialized,
                 faceDetector, aside, acct>>

FaultNext == Next \/ WorkerErrorEvent

FaultSpec == Init /\ [][FaultNext]_vars

\* ------------------------------------------------- a batch of three images
\* step 2 after three files were added
ExampleFiles == <<"a.b.png", "c", "c">>

ExampleInit ==
  /\ currentStep = 2
  /\ store = addBatchImages(InitialStore, 1, ExampleFiles)
  /\ nextId = Len(ExampleFiles) + 1
  /\ pc = "unmounted"
  /\ prepIndex = 0
  /\ tasks = <<>>
  /\ workers = <<>>
  /\ workersInitialized = FALSE
  /\ cropTaskQueue = <<>>
  /\ activeWorkersCount = 0
  /\ totalTasksInBatch = 0
  /\ faceDetector = FALSE
  /\ finishCount = 0
  /\ acct = <<>>
  /\ wk = NoWork /\ stale = <<>> /\ geo = NoGeometry /\ det = NoDetection
  /\ zipped = NotZipped /\ call = NoCall

\* the batch is processed, and processed again after going back to step 2
ExampleNext ==
  \/ ProceedToProcessing
  \/ PrepareImage
  \/ WorkerMessage
  \/ WorkerError
  \/ BackToBatchUpload

ExampleSpec == ExampleInit /\ [][ExampleNext]_vars

\* ------------------------------------------------ downloading the outputs
\* img.file.name.split('.') for the names of FileNames
SplitName(name) ==
  CASE name = "a.b.png" -> <<"a", "b", "png">>
    [] name = "c" -> <<"c">>

\* line 312; no name of FileNames ends in a dot
Extension(name) ==
  LET filenameParts == SplitName(name)
  IN IF Len(filenameParts) > 1 THEN filenameParts[Len(filenameParts)] ELSE "png"

\* line 313, the parts that join('.') puts together again
BaseFilename(name) ==
  LET filenameParts == SplitName(name)
  IN IF Len(filenameParts) > 1
     THEN SubSeq(filenameParts, 1, Len(filenameParts) - 1)
     ELSE filenameParts

\* lines 315-320: the entries of one image; a file name is the sequence of
\* 'cropped_', the base name, the number n of the suffix '_face<n>' and the
\* extension; the blob of an output is told by its image and its suffix
FilesOfImage(img) ==
  [j \in 1..Len(img.croppedBlobs) |->
     [filename |-> <<"cropped_", BaseFilename(img.name),
                     img.croppedBlobs[j].filenameSuffix, Extension(img.name)>>,
      blob |-> <<img.id, img.croppedBlobs[j].filenameSuffix>>]]

\* lines 309-322 taking the outputs of images with status 'cropped' only
RECURSIVE FilesToZip_CroppedOnly(_)
FilesToZip_CroppedOnly(images) ==
  IF images = <<>> THEN <<>>
  ELSE (IF Head(images).status = "cropped" /\ Len(Head(images).croppedBlobs) > 0
        THEN FilesOfImage(Head(images))
        ELSE <<>>) \o FilesToZip_CroppedOnly(Tail(images))

\* lines 309-322: filesToZip
RECURSIVE FilesToZip(_)
FilesToZip(images) ==
  IF images = <<>> THEN <<>>
  ELSE (IF Len(Head(images).croppedBlobs) > 0
        THEN FilesOfImage(Head(images))
        ELSE <<>>) \o FilesToZip(Tail(images))

\* handleDownloadZip, lines 307-336, behind the button of lines 441-447
DownloadZip ==
  /\ pc \notin {"unmounted", "detached"}
  /\ ~store.isProcessingBatch
  /\ store.totalIndividualCropsMade > 0
  /\ \E filesToZip \in {FilesToZip(store.batchImages)} :
       zipped' = IF Len(filesToZip) = 0 THEN zipped
                 ELSE [made |-> TRUE, files |-> filesToZip]
  /\ UNCHANGED <<currentStep, store, nextId, pc, prepIndex, tasks, workers,
                 workersInitialized, cropTaskQueue, activeWorkersCount,
                 totalTasksInBatch, faceDetector, finishCount, acct,
                 wk, stale, geo, det, call>>

\* As Next, with the download. The download changes nothing in the
\* application, so what follows it is the same as without it and is left
\* out.
DownloadNext ==
  \/ zipped = NotZipped /\ Next
  \/ DownloadZip

DownloadSpec == Init /\ [][DownloadNext]_vars

\* ------------------------------------------- detectAllFaces on its own
\* at most this many raw detections in one image
MaxDetections == 3

\* null result of detectAllFaces
NoResult ==
  [primaryBoundingBox |-> NoBox, allDetectedBoundingBoxes |-> <<>>,
   imageWidth |-> 0, imageHeight |-> 0, detectionCount |-> 0]

\* lines 94-103: the boxes of the detections that have one, in order
RECURSIVE BoundingBoxes(_)
BoundingBoxes(detections) ==
  IF detections = <<>> THEN <<>>
  ELSE (IF Head(detections).boundingBox # <<>>
        THEN <<Head(detections).boundingBox[1]>>
        ELSE <<>>) \o BoundingBoxes(Tail(detections))

\* lines 112-120 with `area >= maxArea`
RECURSIVE LargestFrom_LastOfTies(_, _, _, _)
LargestFrom_LastOfTies(boxes, i, maxArea, largestFaceBox) ==
  IF i > Len(boxes) THEN largestFaceBox
  ELSE LET bb == boxes[i]
           area == bb.width * bb.height
       IN IF area >= maxArea
          THEN LargestFrom_LastOfTies(boxes, i + 1, area, <<bb>>)
          ELSE LargestFrom_LastOfTies(boxes, i + 1, maxArea, largestFaceBox)

\* the forEach of lines 112-120 from box i on; largestFaceBox is <<>> for null
RECURSIVE LargestFrom(_, _, _, _)
LargestFrom(boxes, i, maxArea, largestFaceBox) ==
  IF i > Len(boxes) THEN largestFaceBox
  ELSE LET bb == boxes[i]
           area == bb.width * bb.height
       IN IF area > maxArea
          THEN LargestFrom(boxes, i + 1, area, <<bb>>)
          ELSE LargestFrom(boxes, i + 1, maxArea, largestFaceBox)

\* lines 63-143; outcome is "unavailable" when the detector cannot be
\* initialised, "thrown" when detect throws, else "ok"
detectAllFaces(detections, outcome, naturalWidth, naturalHeight) ==
  IF outcome # "ok" THEN NoResult
  ELSE IF Len(detections) = 0 THEN NoResult
  ELSE
    LET allDetectedBoundingBoxes == BoundingBoxes(detections)
        largest == LargestFrom(allDetectedBoundingBoxes, 1, 0, <<>>)
        largestFaceBox == IF largest # <<>> THEN largest[1]
                          ELSE allDetectedBoundingBoxes[1]
    IN IF Len(allDetectedBoundingBoxes) = 0 THEN NoResult
       ELSE [primaryBoundingBox |-> largestFaceBox,
             allDetectedBoundingBoxes |-> allDetectedBoundingBoxes,
             imageWidth |-> naturalWidth, imageHeight |-> naturalHeight,
             detectionCount |-> Len(allDetectedBoundingBoxes)]

\* boxes the detector may report: of equal area at different places, larger,
\* and without area
DetectedBoxes ==
  {[x |-> 0, y |-> 0, width |-> 2, height |-> 2],
   [x |-> 1, y |-> 1, width |-> 2, height |-> 2],
   [x |-> 0, y |-> 1, width |-> 3, height |-> 2],
   [x |-> 0, y |-> 0, width |-> 0, height |-> 2],
   [x |-> 1, y |-> 1, width |-> 0, height |-> 0]}

\* raw detections, with a bounding box or without
Detections ==
  {[boundingBox |-> <<>>]} \cup {[boundingBox |-> <<b>>] : b \in DetectedBoxes}

DetectInit ==
  /\ AppInit
  /\ wk = NoWork /\ stale = <<>> /\ geo = NoGeometry /\ zipped = NotZipped /\ call = NoCall
  /\ det \in {[pc |-> "called", detections |-> d, outcome |-> o,
                result |-> NoResult] :
                d \in SeqsUpTo(Detections, MaxDetections),
                o \in {"ok", "unavailable", "thrown"}}

DetectAllFaces ==
  /\ det.pc = "called"
  /\ det' = [det EXCEPT
               !.pc = "returned",
               !.result = detectAllFaces(det.detections, det.outcome, ImgW, ImgH)]
  /\ UNCHANGED <<currentStep, store, nextId, pc, prepIndex, tasks, workers,
                 workersInitialized, cropTaskQueue, activeWorkersCount,
                 totalTasksInBatch, faceDetector, finishCount, acct,
                 wk, stale, geo, zipped, call>>

DetectSpec == DetectInit /\ [][DetectAllFaces]_vars

\* ---------------------------------------- calculatePixelCropBox on its own
\* face boxes as the detector may report them, among them degenerate ones,
\* the padding the editor may hold, and image sizes
GeoFaces ==
  [x : {0, 100, 300}, y : {50, 200}, width : {0 - 1, 0, 3, 200},
   height : {0, 7, 200}]
GeoParams ==
  [leftPaddingPercent : {0 - 50, 0, 50}, rightPaddingPercent : {0, 50, 300},
   topPaddingPercent : {0, 25}, bottomPaddingPercent : {0, 25}]
GeoImages == {<<800, 600>>, <<150, 60>>, <<4, 4>>}

GeoInit ==
  /\ AppInit
  /\ wk = NoWork /\ stale = <<>> /\ det = NoDetection /\ zipped = NotZipped /\ call = NoCall
  /\ geo \in {[pc |-> "input", face |-> f, params |-> p,
                imageWidth |-> i[1], imageHeight |-> i[2], box |-> NoBox] :
                f \in GeoFaces, p \in GeoParams, i \in GeoImages}

GeoCrop ==
  /\ geo.pc = "input"
  /\ geo' = [geo EXCEPT
               !.pc = "cropped",
               !.box = calculatePixelCropBox(geo.face, geo.params,
                                             geo.imageWidth, geo.imageHeight)]
  /\ UNCHANGED <<currentStep, store, nextId, pc, prepIndex, tasks, workers,
                 workersInitialized, cropTaskQueue, activeWorkersCount,
                 totalTasksInBatch, faceDetector, finishCount, acct,
                 wk, stale, det, zipped, call>>

GeoSpec == GeoInit /\ [][GeoCrop]_vars

\* ------------------------- from crop box to percentages and back again
\* faces, paddings (whole pixels and percentages) and image sizes
RoundTripFaces == [x : {8, 18}, y : {9, 20}, width : {3, 9, 16}, height : {7, 10}]
RoundTripPercents == {0, 15, 50, 74}
RoundTripParams ==
  [leftPaddingPercent : RoundTripPercents, rightPaddingPercent : RoundTripPercents,
   topPaddingPercent : RoundTripPercents, bottomPaddingPercent : RoundTripPercents]
RoundTripImages == {<<64, 64>>}

\* a record of whole numbers as floating-point values
ToFlBox(b) ==
  [x |-> ToFl(b.x), y |-> ToFl(b.y), width |-> ToFl(b.width),
   height |-> ToFl(b.height)]
ToFlParams(p) ==
  [leftPaddingPercent |-> ToFl(p.leftPaddingPercent),
   rightPaddingPercent |-> ToFl(p.rightPaddingPercent),
   topPaddingPercent |-> ToFl(p.topPaddingPercent),
   bottomPaddingPercent |-> ToFl(p.bottomPaddingPercent)]

RoundTripInit ==
  /\ AppInit
  /\ wk = NoWork /\ stale = <<>> /\ det = NoDetection /\ zipped = NotZipped /\ call = NoCall
  /\ geo \in {[pc |-> "input", face |-> f, params |-> p,
                imageWidth |-> i[1], imageHeight |-> i[2],
                box |-> NoBox, params2 |-> ToFlParams(p), box2 |-> NoBox] :
                f \in RoundTripFaces, p \in RoundTripParams,
                i \in RoundTripImages}

\* the crop box of the face under the percentages (batch step)
RoundTripCrop ==
  /\ geo.pc = "input"
  /\ \E b \in {calculatePixelCropBoxFl(ToFlBox(geo.face), ToFlParams(geo.params),
                                        ToFl(geo.imageWidth), ToFl(geo.imageHeight))} :
       geo' = [geo EXCEPT !.pc = IF b = NoBox THEN "absent" ELSE "cropped",
                          !.box = b]
  /\ UNCHANGED <<currentStep, store, nextId, pc, prepIndex, tasks, workers,
                 workersInitialized, cropTaskQueue, activeWorkersCount,
                 totalTasksInBatch, faceDetector, finishCount, acct,
                 wk, stale, det, zipped, call>>

\* the percentages of that crop box on the same face
RoundTripPercent ==
  /\ geo.pc = "cropped"
  /\ geo' = [geo EXCEPT
               !.pc = "percent",
               !.params2 = calculatePercentageParamsFromPixelBox(
                              ToFlBox(geo.face), geo.box)]
  /\ UNCHANGED <<currentStep, store, nextId, pc, prepIndex, tasks, workers,
                 workersInitialized, cropTaskQueue, activeWorkersCount,
                 totalTasksInBatch, faceDetector, finishCount, acct,
                 wk, stale, det, zipped, call>>

\* the crop box of the face under these percentages
RoundTripRecrop ==
  /\ geo.pc = "percent"
  /\ geo' = [geo EXCEPT
               !.pc = "done",
               !.box2 = calculatePixelCropBoxFl(ToFlBox(geo.face), geo.params2,
                                                ToFl(geo.imageWidth),
                                                ToFl(geo.imageHeight))]
  /\ UNCHANGED <<currentStep, store, nextId, pc, prepIndex, tasks, workers,
                 workersInitialized, cropTaskQueue, activeWorkersCount,
                 totalTasksInBatch, faceDetector, finishCount, acct,
                 wk, stale, det, zipped, call>>

RoundTripNext ==
  \/ RoundTripCrop
  \/ RoundTripPercent
  \/ RoundTripRecrop

RoundTripSpec == RoundTripInit /\ [][RoundTripNext]_vars

\* ------------------------------------------- the worker on its own
appVars == <<currentStep, store, nextId, pc, prepIndex, tasks, workers,
             workersInitialized, cropTaskQueue, activeWorkersCount,
             totalTasksInBatch, faceDetector, finishCount, acct>>

\* a request arrives at a worker
WorkerInit ==
  /\ AppInit
  /\ stale = <<>> /\ geo = NoGeometry /\ det = NoDetection /\ zipped = NotZipped /\ call = NoCall
  /\ wk \in {[pc |-> "received", request |-> r, env |-> e, posted |-> <<>>] :
               r \in Requests, e \in WorkerEnvs}

WorkerReceive ==
  /\ wk.pc = "received"
  /\ wk' = OnReceive(wk)
  /\ UNCHANGED <<appVars, stale, geo, det, zipped, call>>

WorkerDecoded ==
  /\ wk.pc = "decoding"
  /\ wk' = OnDecoded(wk)
  /\ UNCHANGED <<appVars, stale, geo, det, zipped, call>>

WorkerEncoded ==
  /\ wk.pc = "encoding"
  /\ wk' = OnEncoded(wk)
  /\ UNCHANGED <<appVars, stale, geo, det, zipped, call>>

WorkerNext == WorkerReceive \/ WorkerDecoded \/ WorkerEncoded

WorkerSpec == WorkerInit /\ [][WorkerNext]_vars

\* ------------------------------------------------- the store on its own
\* the statuses of a BatchImageFile
Statuses == {"pending", "processing", "cropped", "skipped", "error"}

\* what an image record can hold besides its id and name
ImageStates ==
  {[status |-> st, croppedBlobs |-> b, skippedReason |-> t[1], errorMessage |-> t[2]] :
     st \in Statuses,
     b \in {<<>>, <<[filenameSuffix |-> 1]>>},
     t \in {<<NoText, NoText>>, <<NoFacesReason, NoText>>, <<NoText, AnalyzeError>>}}

StoreNames == <<"a.b.png", "c", "c">>

\* stores with up to MaxImages images, ids 1, 2, ...
Stores ==
  {[definedCropParams |-> DefaultCropParams,
    batchImages |-> [k \in 1..Len(imgs) |->
                       [id |-> k, name |-> StoreNames[((k - 1) % 3) + 1]] @@ imgs[k]],
    isProcessingBatch |-> FALSE,
    successfullyCroppedImageCount |->
       Cardinality({k \in 1..Len(imgs) :
          imgs[k].status = "cropped" /\ Len(imgs[k].croppedBlobs) > 0}),
    totalIndividualCropsMade |->
       Cardinality({k \in 1..Len(imgs) : Len(imgs[k].croppedBlobs) > 0}),
    skippedImageInfos |->
       IF \E k \in 1..Len(imgs) : imgs[k].skippedReason # NoText
       THEN <<[filename |-> "c", reason |-> NoFacesReason]>>
       ELSE <<>>] :
     imgs \in SeqsUpTo(ImageStates, MaxImages) \ {<<>>}}

StoreInit ==
  /\ currentStep = 3
  /\ store \in Stores
  /\ nextId = MaxImages + 1
  /\ pc = "idle"
  /\ prepIndex = 0
  /\ tasks = <<>>
  /\ workers = <<>>
  /\ workersInitialized = FALSE
  /\ cropTaskQueue = <<>>
  /\ activeWorkersCount = 0
  /\ totalTasksInBatch = 0
  /\ faceDetector = FALSE
  /\ finishCount = 0
  /\ acct = <<>>
  /\ wk = NoWork /\ stale = <<>> /\ geo = NoGeometry /\ det = NoDetection
  /\ zipped = NotZipped /\ call = NoCall

StoreFrame ==
  UNCHANGED <<currentStep, nextId, pc, prepIndex, tasks, workers,
              workersInitialized, cropTaskQueue, activeWorkersCount,
              totalTasksInBatch, faceDetector, finishCount, acct,
              wk, stale, geo, det, zipped>>

StoreUpdateBatchImageStatus ==
  /\ call = NoCall
  /\ \E id \in 1..MaxImages, status \in Statuses,
        t \in {<<NoText, NoText>>, <<NoFacesReason, NoText>>, <<NoText, AnalyzeError>>} :
       /\ store' = updateBatchImageStatus(store, id, status, t[1], t[2])
       /\ call' = [action |-> "updateBatchImageStatus", before |-> store,
                   id |-> id, status |-> status]
  /\ StoreFrame

StoreAddCroppedBlobToImage ==
  /\ call = NoCall
  /\ \E id \in 1..MaxImages, n \in 1..MaxFaces :
       /\ store' = addCroppedBlobToImage(store, id, n)
       /\ call' = [action |-> "addCroppedBlobToImage", before |-> store,
                   id |-> id, status |-> "cropped"]
  /\ StoreFrame

StoreStartBatchProcessing ==
  /\ call = NoCall
  /\ store' = startBatchProcessing(store)
  /\ call' = [action |-> "startBatchProcessing", before |-> store,
              id |-> 0, status |-> "pending"]
  /\ StoreFrame

StoreNext ==
  \/ StoreUpdateBatchImageStatus
  \/ StoreAddCroppedBlobToImage
  \/ StoreStartBatchProcessing

StoreSpec == StoreInit /\ [][StoreNext]_vars

\* ------------------------------------------------------------ properties
\* requests posted to a worker and not yet answered by a result or a fault
InFlightTasks == UNION {workers[w] : w \in 1..Len(workers)}
InFlight == Cardinality(InFlightTasks)

\* finishBatchProcessing has run in the current batch run
BatchCompleted == finishCount >= 1

\* the image record of the run that acct[k] accounts for
ImageOf(k) == store.batchImages[FindImage(store.batchImages, acct[k].id)]
Accounted == {k \in 1..Len(acct) : FindImage(store.batchImages, acct[k].id) # 0}

C2_FinishExactlyOnce ==
  /\ finishCount <= 1
  /\ (Len(acct) > 0 /\ pc # "preparing" /\ ~store.isProcessingBatch)
        => finishCount = 1

C5_AccountingClosure ==
  BatchCompleted =>
    \A k \in 1..Len(acct) :
       acct[k].reportedOk + acct[k].reportedErr + acct[k].skippedLocally
         = acct[k].totalFaces

C7_OutputsEndCropped ==
  BatchCompleted =>
    \A k \in Accounted :
       (Len(ImageOf(k).croppedBlobs) > 0 /\ acct[k].reportedErr = 0)
         => ImageOf(k).status = "cropped"

\* a completed run with a cropped image one face of which had no crop box
C7_Witness ==
  /\ BatchCompleted
  /\ \E k \in Accounted :
       /\ Len(ImageOf(k).croppedBlobs) > 0 /\ acct[k].reportedErr = 0
       /\ acct[k].skippedLocally > 0
       /\ ImageOf(k).status = "cropped"

\* crop tasks of image `id` anywhere in the component
TasksOf(id) ==
  {t \in {tasks[j] : j \in 1..Len(tasks)}
         \cup {cropTaskQueue[j] : j \in 1..Len(cropTaskQueue)}
         \cup InFlightTasks : t.originalFileId = id}

\* C8: an image in which detection finds no face never gets a crop task, and
\* ends the batch with status skipped and a skip reason.
C8_NoFacesSkipped ==
  \A k \in Accounted :
     acct[k].analysis = "noFaces" =>
        /\ TasksOf(acct[k].id) = {} /\ acct[k].tasksCreated = 0
        /\ acct[k].reportedOk + acct[k].reportedErr + acct[k].faulted = 0
        /\ BatchCompleted =>
             (ImageOf(k).status = "skipped" /\ ImageOf(k).skippedReason # NoText)

\* a completed run in which a faceless image was skipped next to an image
\* that did get crop tasks
C8_Witness ==
  /\ BatchCompleted /\ totalTasksInBatch > 0
  /\ \E k \in Accounted :
       /\ acct[k].analysis = "noFaces"
       /\ ImageOf(k).status = "skipped"
       /\ ImageOf(k).skippedReason = NoFacesReason

\* C9: an invalid-geometry face never sets an image to error (an image in
\* error had a decode failure or a reported crop failure), and an image all
\* faces of which have no crop box ends the batch with status skipped.
C9_InvalidGeometrySkipped ==
  \A k \in Accounted :
     /\ ImageOf(k).status = "error" =>
          (acct[k].analysis = "loadFailed" \/ acct[k].reportedErr > 0)
     /\ (BatchCompleted /\ acct[k].totalFaces > 0
          /\ acct[k].skippedLocally = acct[k].totalFaces)
          => ImageOf(k).status = "skipped"

\* a completed run with an image whose two faces both had no crop box
C9_Witness ==
  /\ BatchCompleted
  /\ \E k \in Accounted :
       /\ acct[k].totalFaces >= 2
       /\ acct[k].skippedLocally = acct[k].totalFaces
       /\ ImageOf(k).status = "skipped"
       /\ ImageOf(k).skippedReason = AllInvalidReason

\* successful crop results handled for image `id` in the current run
ReportedOk(id) == IF AcctIndex(id) = 0 THEN 0 ELSE acct[AcctIndex(id)].reportedOk

\* C10: in every reachable state, for every image, the length of
\* croppedBlobs equals the number of successful crop results that workers
\* have reported for it in the current run.
C10_OutputsMatchSuccesses ==
  \A i \in 1..Len(store.batchImages) :
     Len(store.batchImages[i].croppedBlobs) = ReportedOk(store.batchImages[i].id)

\* an image already marked error has received a cropped output
C10_Witness ==
  \E i \in 1..Len(store.batchImages) :
     /\ store.batchImages[i].status = "error"
     /\ Len(store.batchImages[i].croppedBlobs) >= 1
     /\ store.isProcessingBatch

\* C11: while a crop task of an image is still waiting (in the list built by
\* Preparing or in the queue) or in flight, the status of that image is not
\* yet cropped or skipped.
C11_StatusAfterAllFaces ==
  \A k \in Accounted :
     TasksOf(acct[k].id) # {}
       => (ImageOf(k).status # "cropped" /\ ImageOf(k).status # "skipped")

\* what recording a failed crop of `task` does to the store (lines 99-111)
AfterFailure(w, task) ==
  HandleResult(AnsweredByMessage(Machine, w, task),
               cropWorker(task, "encodeFails")).store

OwnOutcome(a) ==
  IF a.analysis = "loadFailed" \/ a.reportedErr > 0 THEN "error"
  ELSE IF a.reportedOk > 0 THEN "cropped"
  ELSE "skipped"

C14_FaultSurfacesFailure ==
  /\ activeWorkersCount = InFlight
  /\ BatchCompleted =>
       \A k \in Accounted : acct[k].faulted > 0 => ImageOf(k).status = "error"

\* C15: when the face detector cannot be initialised the batch is halted as
\* a whole: no image is given the status skipped because the detector was
\* unavailable for it, and the run creates no crop task.
C15_DetectorUnavailableHalts ==
  \A k \in Accounted :
     acct[k].analysis = "noDetector" =>
        /\ ImageOf(k).status # "skipped"
        /\ \A j \in 1..Len(acct) : acct[j].tasksCreated = 0

\* C16: no worker is handed a task while a task dispatched to it earlier has
\* not been answered: every worker has at most one request outstanding.
C16_OneTaskPerWorker ==
  \A w \in 1..Len(workers) : Cardinality(workers[w]) <= 1

\* crop tasks created and not yet dispatched
WaitingTasks ==
  {tasks[j] : j \in 1..Len(tasks)} \cup {cropTaskQueue[j] : j \in 1..Len(cropTaskQueue)}

\* C17: every crop task created during Preparing is dispatched once and
\* handled once (by worker.onmessage, or by worker.onerror when the worker
\* faults): a task waits, or is in flight at one worker, or has been
\* handled, never two of these; at batch-complete the handled tasks of every
\* image are the tasks created for it.
C17_EachTaskOnce ==
  /\ \A j1, j2 \in 1..Len(cropTaskQueue) :
        cropTaskQueue[j1] = cropTaskQueue[j2] => j1 = j2
  /\ WaitingTasks \cap InFlightTasks = {}
  /\ \A w1, w2 \in 1..Len(workers) : w1 # w2 => workers[w1] \cap workers[w2] = {}
  /\ \A k \in 1..Len(acct) :
        acct[k].tasksCreated =
           Cardinality(TasksOf(acct[k].id))
           + acct[k].reportedOk + acct[k].reportedErr + acct[k].faulted
  /\ BatchCompleted =>
       \A k \in 1..Len(acct) :
          acct[k].tasksCreated =
             acct[k].reportedOk + acct[k].reportedErr + acct[k].faulted

\* a completed run with more tasks than workers in which every task was
\* answered by a result message
C17_Witness ==
  /\ BatchCompleted /\ ~store.isProcessingBatch
  /\ totalTasksInBatch > MAX_WORKERS
  /\ \A k \in 1..Len(acct) :
        /\ acct[k].faulted = 0
        /\ acct[k].tasksCreated = acct[k].reportedOk + acct[k].reportedErr
  /\ \E k \in 1..Len(acct) : acct[k].reportedErr > 0

\* C18: for the request it received the crop worker posts one response and
\* no more, with status cropped or error and the originalFileId, faceIndex
\* and filename of the request, on every path (missing image, decode
\* failure, no canvas context, encode failure, success); it is the response
\* the orchestrator model takes a worker to give.
C18_OneTaggedResponse ==
  /\ Len(wk.posted) <= 1
  /\ wk.pc = "done" =>
       /\ Len(wk.posted) = 1
       /\ wk.posted[1].status \in {"cropped", "error"}
       /\ wk.posted[1].originalFileId = wk.request.originalFileId
       /\ wk.posted[1].faceIndex = wk.request.faceIndex
       /\ wk.posted[1].filename = wk.request.filename
       /\ wk.posted[1] = cropWorker(wk.request, wk.env)

\* a request without an image has been answered with an error
C18_Witness ==
  /\ wk.pc = "done" /\ ~wk.request.imageFile
  /\ Len(wk.posted) = 1 /\ wk.posted[1].status = "error"

\* the crop box of the request has a non-positive width or height
InvalidDimensions(r) ==
  r.sourceWidth <= 0 \/ r.sourceHeight <= 0
  \/ r.outputWidth <= 0 \/ r.outputHeight <= 0

\* C19: a request whose crop box has a non-positive width or height (source
\* or output) is answered with an error response and never with a cropped
\* one.
C19_InvalidBoxIsError ==
  (wk.pc # "idle" /\ InvalidDimensions(wk.request)) =>
     /\ \A j \in 1..Len(wk.posted) : wk.posted[j].status = "error"
     /\ wk.pc # "encoding"
     /\ wk.pc = "done" => Len(wk.posted) = 1

\* a request with an image that decodes and a crop box of width zero has
\* been answered with an error
C19_Witness ==
  /\ wk.pc = "done" /\ wk.request.imageFile /\ wk.env = "ok"
  /\ wk.request.sourceWidth = 0 /\ wk.request.sourceHeight > 0
  /\ wk.request.outputWidth > 0 /\ wk.request.outputHeight > 0
  /\ wk.posted[1].status = "error"

\* the component is not mounted: it was never mounted, or was torn down
TornDown == pc \in {"unmounted", "detached"}

\* C20: once the component is unmounted, in whatever phase of a run, all its
\* workers are terminated (none is left, nothing is in flight), the task
\* queue is empty and the active count is zero, and they stay so: no task
\* is dispatched afterwards.
C20_TeardownIsFinal ==
  TornDown =>
     /\ workers = <<>> /\ InFlight = 0
     /\ cropTaskQueue = <<>>
     /\ activeWorkersCount = 0

\* C21: at batch-complete the status and the number of cropped outputs of
\* every image are a function of how many of its crop tasks succeeded and
\* how many failed (and of its analysis), whatever the order in which the
\* results arrived.
C21_OrderIndependentOutcome ==
  BatchCompleted =>
    \A k \in Accounted :
       /\ Len(ImageOf(k).croppedBlobs) = acct[k].reportedOk
       /\ ImageOf(k).status =
            (IF acct[k].analysis = "loadFailed" \/ acct[k].reportedErr > 0
             THEN "error"
             ELSE IF acct[k].reportedOk > 0 THEN "cropped" ELSE "skipped")

\* completed runs in which the results of an image arrived against the
\* order of dispatch: both faces cropped, the second one first
C21_Witness ==
  /\ BatchCompleted /\ ~store.isProcessingBatch
  /\ \E k \in Accounted :
       /\ acct[k].reportedOk = 2
       /\ ImageOf(k).croppedBlobs[1].filenameSuffix
            > ImageOf(k).croppedBlobs[2].filenameSuffix
       /\ ImageOf(k).status = "cropped"

\* the createCropTaskQueue loops under way, each with one image in its
\* decode-and-detect step
AnalysesUnderWay ==
  (IF pc \in {"preparing", "detached"} THEN 1 ELSE 0) + Len(stale)

\* C22: at any time at most one image is in the decode-and-detect step,
\* however often processBatch was invoked: at most one createCropTaskQueue
\* loop is under way.
C22_OneImageAnalysedAtATime == AnalysesUnderWay <= 1

\* a box lies inside an image of the given size, lengths in the same unit
InsideImage(box, imageWidth, imageHeight) ==
  /\ box.x >= 0 /\ box.y >= 0
  /\ box.x + box.width <= imageWidth
  /\ box.y + box.height <= imageHeight
  /\ box.width > 0 /\ box.height > 0

EdgeX1(g) == Max(0, 100 * g.face.x - g.params.leftPaddingPercent * g.face.width)
EdgeY1(g) == Max(0, 100 * g.face.y - g.params.topPaddingPercent * g.face.height)
EdgeX2(g) ==
  Min(100 * g.imageWidth,
      100 * (g.face.x + g.face.width) + g.params.rightPaddingPercent * g.face.width)
EdgeY2(g) ==
  Min(100 * g.imageHeight,
      100 * (g.face.y + g.face.height) + g.params.bottomPaddingPercent * g.face.height)

ExampleFace == [x |-> 100, y |-> 50, width |-> 200, height |-> 200]
ExampleParams ==
  [leftPaddingPercent |-> 50, rightPaddingPercent |-> 50,
   topPaddingPercent |-> 25, bottomPaddingPercent |-> 25]

\* C24: calculatePixelCropBox returns the box with the edges
\* x1 = max(0, face.x - left% * face.width), y1 = max(0, face.y - top% *
\* face.height), x2 = min(imgW, face.x + face.width + right% * face.width),
\* y2 = min(imgH, face.y + face.height + bottom% * face.height), and nothing
\* exactly when the face has no positive width and height or x2 - x1 <= 0 or
\* y2 - y1 <= 0; face {100,50,200,200} with {50,50,25,25} in an image of
\* 800 x 600 gives {0,0,400,300}.
C24_CropBoxEdges ==
  geo.pc = "cropped" =>
     /\ geo.box = NoBox <=>
          \/ geo.face.width <= 0
          \/ geo.face.height <= 0
          \/ EdgeX2(geo) - EdgeX1(geo) <= 0
          \/ EdgeY2(geo) - EdgeY1(geo) <= 0
     /\ geo.box # NoBox =>
          geo.box = [x |-> EdgeX1(geo), y |-> EdgeY1(geo),
                     width |-> EdgeX2(geo) - EdgeX1(geo),
                     height |-> EdgeY2(geo) - EdgeY1(geo)]
     /\ (geo.face = ExampleFace /\ geo.params = ExampleParams
           /\ geo.imageWidth = 800 /\ geo.imageHeight = 600) =>
          geo.box = [x |-> 0, y |-> 0, width |-> 400 * PX, height |-> 300 * PX]

\* the example of the claim was computed
C24_Witness ==
  /\ geo.pc = "cropped"
  /\ geo.face = ExampleFace /\ geo.params = ExampleParams
  /\ geo.imageWidth = 800 /\ geo.imageHeight = 600
  /\ geo.box = [x |-> 0, y |-> 0, width |-> 400 * PX, height |-> 300 * PX]

\* the desired edges of the crop box lie inside the image (whole pixels and
\* percentages)
NeedsNoClamping(face, params, imageWidth, imageHeight) ==
  /\ 100 * face.x - params.leftPaddingPercent * face.width >= 0
  /\ 100 * face.y - params.topPaddingPercent * face.height >= 0
  /\ 100 * (face.x + face.width) + params.rightPaddingPercent * face.width
       <= 100 * imageWidth
  /\ 100 * (face.y + face.height) + params.bottomPaddingPercent * face.height
       <= 100 * imageHeight

\* the round trip was made on a face of positive size with padding that is
\* not negative and a crop box that needed no clamping
RoundTripCase ==
  /\ geo.pc = "done"
  /\ geo.face.width > 0 /\ geo.face.height > 0
  /\ geo.params.leftPaddingPercent >= 0 /\ geo.params.rightPaddingPercent >= 0
  /\ geo.params.topPaddingPercent >= 0 /\ geo.params.bottomPaddingPercent >= 0
  /\ NeedsNoClamping(geo.face, geo.params, geo.imageWidth, geo.imageHeight)

\* the largest difference between the coordinates of two boxes
MaxDeviation(b, c) ==
  Max(Max(Abs(b.x - c.x), Abs(b.y - c.y)),
      Max(Abs(b.width - c.width), Abs(b.height - c.height)))

ReportedBoxes ==
  LET withBox == SelectSeq(det.detections, LAMBDA d : d.boundingBox # <<>>)
  IN [i \in 1..Len(withBox) |-> withBox[i].boundingBox[1]]

Area(bb) == bb.width * bb.height

\* C26: detectAllFaces returns as primaryBoundingBox the detected box of
\* maximal area, the first-encountered one among boxes of equal maximal
\* area; detectionCount is the number of boxes in allDetectedBoundingBoxes;
\* the result is absent when no box was detected.
C26_PrimaryIsFirstLargest ==
  det.pc = "returned" =>
     /\ ReportedBoxes = <<>> => det.result = NoResult
     /\ (det.outcome = "ok" /\ ReportedBoxes # <<>>) =>
          /\ det.result # NoResult
          /\ det.result.allDetectedBoundingBoxes = ReportedBoxes
          /\ det.result.detectionCount = Len(det.result.allDetectedBoundingBoxes)
          /\ \E i \in 1..Len(ReportedBoxes) :
               /\ det.result.primaryBoundingBox = ReportedBoxes[i]
               /\ \A j \in 1..Len(ReportedBoxes) :
                    Area(ReportedBoxes[j]) <= Area(ReportedBoxes[i])
               /\ \A j \in 1..(i - 1) :
                    Area(ReportedBoxes[j]) < Area(ReportedBoxes[i])

\* a smaller box, then two different boxes of the same, maximal area: the
\* first of the two is the primary one
C26_Witness ==
  /\ det.pc = "returned" /\ det.result # NoResult
  /\ det.result.detectionCount = 3
  /\ Area(ReportedBoxes[1]) < Area(ReportedBoxes[2])
  /\ Area(ReportedBoxes[2]) = Area(ReportedBoxes[3])
  /\ ReportedBoxes[2] # ReportedBoxes[3]
  /\ det.result.primaryBoundingBox = ReportedBoxes[2]

\* the number of outputs recorded for the images
RECURSIVE OutputCount(_)
OutputCount(images) ==
  IF images = <<>> THEN 0
  ELSE Len(Head(images).croppedBlobs) + OutputCount(Tail(images))

\* cropped_<basename>_face<n>.<ext>, written as in FilesOfImage
ExpectedFilename(name, n) ==
  CASE name = "a.b.png" -> <<"cropped_", <<"a", "b">>, n, "png">>
    [] name = "c" -> <<"cropped_", <<"c">>, n, "png">>

\* C27: the download set holds exactly one entry for every recorded output
\* of every image, images with status error included, and each entry is named
\* cropped_<basename>_face<faceIndex+1>.<ext>.
C27_DownloadSet ==
  zipped.made =>
     /\ Len(zipped.files) = OutputCount(store.batchImages)
     /\ \A k \in 1..Len(store.batchImages) :
          \A j \in 1..Len(store.batchImages[k].croppedBlobs) :
             \E n \in 1..Len(zipped.files) :
                /\ zipped.files[n].blob =
                     <<store.batchImages[k].id,
                       store.batchImages[k].croppedBlobs[j].filenameSuffix>>
                /\ zipped.files[n].filename =
                     ExpectedFilename(store.batchImages[k].name,
                        store.batchImages[k].croppedBlobs[j].filenameSuffix)
                /\ \A o \in 1..Len(zipped.files) :
                     zipped.files[o].blob = zipped.files[n].blob => o = n

\* a download after a run that left one image with status error and an
\* output, and one image with status cropped
C27_Witness ==
  /\ zipped.made
  /\ BatchCompleted
  /\ \E k \in 1..Len(store.batchImages) :
       /\ store.batchImages[k].status = "error"
       /\ Len(store.batchImages[k].croppedBlobs) > 0
       /\ store.batchImages[k].name = "a.b.png"
  /\ \E k \in 1..Len(store.batchImages) :
       /\ store.batchImages[k].status = "cropped"
       /\ store.batchImages[k].name = "c"
  /\ Len(zipped.files) >= 2

\* the images with status cropped and at least one output
CroppedWithOutput ==
  {k \in 1..Len(store.batchImages) :
     /\ store.batchImages[k].status = "cropped"
     /\ Len(store.batchImages[k].croppedBlobs) > 0}

\* the run of the example: A with two valid faces that both succeed, B
\* without a face, C with one face whose crop fails
ExampleRun ==
  /\ Len(acct) = 3
  /\ acct[1].analysis = "faces" /\ acct[1].totalFaces = 2
  /\ acct[1].tasksCreated = 2 /\ acct[1].reportedOk = 2
  /\ acct[2].analysis = "noFaces"
  /\ acct[3].analysis = "faces" /\ acct[3].totalFaces = 1
  /\ acct[3].tasksCreated = 1 /\ acct[3].reportedErr = 1

\* C28: at batch-complete successfullyCroppedImageCount is the number of
\* images with status cropped and at least one output; for the batch A (two
\* valid faces, both succeed), B (no face), C (one face, crop fails) A is
\* cropped with 2 outputs, B skipped, C error without output: 1 image
\* cropped (2 faces), 1 skipped, 1 error.
C28_SummaryMatchesRecords ==
  (BatchCompleted /\ ~store.isProcessingBatch) =>
     /\ store.successfullyCroppedImageCount = Cardinality(CroppedWithOutput)
     /\ ExampleRun =>
          /\ store.batchImages[1].status = "cropped"
          /\ Len(store.batchImages[1].croppedBlobs) = 2
          /\ store.batchImages[2].status = "skipped"
          /\ store.batchImages[3].status = "error"
          /\ Len(store.batchImages[3].croppedBlobs) = 0
          /\ store.successfullyCroppedImageCount = 1
          /\ store.totalIndividualCropsMade = 2
          /\ Len(store.skippedImageInfos) = 1

\* the run of the example has completed with its summary
C28_Witness ==
  /\ BatchCompleted /\ ~store.isProcessingBatch
  /\ ExampleRun
  /\ store.successfullyCroppedImageCount = 1
  /\ store.totalIndividualCropsMade = 2
  /\ store.batchImages[2].status = "skipped"
  /\ store.batchImages[3].status = "error"

\* task t was created before task u: its image was added to the batch
\* earlier, or it is an earlier face of the same image
CreatedBefore(t, u) ==
  LET i == FindImage(store.batchImages, t.originalFileId)
      j == FindImage(store.batchImages, u.originalFileId)
  IN i < j \/ (i = j /\ t.faceIndex < u.faceIndex)

\* the tasks of a sequence stand in the order of their creation
InCreationOrder(q) ==
  \A a \in 1..Len(q) : \A b \in (a + 1)..Len(q) : CreatedBefore(q[a], q[b])

\* C29: crop tasks are dispatched in the order of their creation, images in
\* the order they were added and the faces of an image by detection index:
\* tasks wait in that order, and every task handed to a worker was created
\* before every task that still waits.
C29_DispatchInCreationOrder ==
  /\ InCreationOrder(tasks)
  /\ InCreationOrder(cropTaskQueue)
  /\ \A t \in InFlightTasks : \A b \in 1..Len(cropTaskQueue) :
        CreatedBefore(t, cropTaskQueue[b])

\* two tasks are with the workers, one of an earlier image and one an earlier
\* face of the image whose last task waits
C29_Witness ==
  /\ InFlight = 2
  /\ Len(cropTaskQueue) = 1
  /\ \E t \in InFlightTasks :
       /\ t.originalFileId = cropTaskQueue[1].originalFileId
       /\ t.faceIndex < cropTaskQueue[1].faceIndex
  /\ \E t \in InFlightTasks :
       FindImage(store.batchImages, t.originalFileId)
         < FindImage(store.batchImages, cropTaskQueue[1].originalFileId)

\* the crop tasks created in this run, as accounted per image
RECURSIVE TasksCreated(_)
TasksCreated(k) == IF k = 0 THEN 0 ELSE acct[k].tasksCreated + TasksCreated(k - 1)

\* C30: dispatching is two-phase: no crop task is handed to a worker (nor
\* stored in the queue) before Preparing has finished for every image of the
\* batch: while tasks wait in the queue or are with a worker, every image has
\* been analysed and has left status pending, and the full task list was
\* stored.
C30_TwoPhase ==
  /\ pc = "preparing" =>
       InFlight = 0 /\ activeWorkersCount = 0 /\ cropTaskQueue = <<>>
  /\ (InFlight > 0 \/ cropTaskQueue # <<>>) =>
       /\ pc = "idle"
       /\ tasks = <<>>
       /\ \A k \in 1..Len(acct) : acct[k].analysis # "none"
       /\ \A k \in 1..Len(store.batchImages) :
            store.batchImages[k].status # "pending"
       /\ totalTasksInBatch = TasksCreated(Len(acct))

\* a task is with a worker after two images were analysed, the first of which
\* gave a task
C30_Witness ==
  /\ InFlight > 0
  /\ Len(acct) = 2
  /\ acct[1].tasksCreated > 0 /\ acct[2].analysis # "none"
  /\ pc = "idle"

\* results and faults handled in this run
Handled(k) == acct[k].reportedOk + acct[k].reportedErr + acct[k].faulted

TerminalStatuses == {"cropped", "skipped", "error"}

\* C32: at batch-complete every image that was part of the run has a
\* terminal status (cropped, skipped or error); none is pending or processing.
C32_TerminalAtCompletion ==
  BatchCompleted =>
    \A k \in Accounted : ImageOf(k).status \in TerminalStatuses

\* a completed run in which the final pass closed out an image that was still
\* 'processing' and another image ended cropped
C32_Witness ==
  /\ BatchCompleted
  /\ ~store.isProcessingBatch
  /\ \E k \in Accounted :
       /\ ImageOf(k).status = "skipped"
       /\ ImageOf(k).skippedReason = AllInvalidReason
  /\ \E k \in Accounted : ImageOf(k).status = "cropped"

\* C33: updateBatchImageStatus and addCroppedBlobToImage never move an image
\* from a final status (cropped, skipped, error) back to pending or
\* processing, and an image in status error stays in status error.
C33_NoStatusRegression ==
  call.action \in {"updateBatchImageStatus", "addCroppedBlobToImage"} =>
    /\ Len(store.batchImages) = Len(call.before.batchImages)
    /\ \A i \in 1..Len(store.batchImages) :
         /\ call.before.batchImages[i].status \in TerminalStatuses
              => store.batchImages[i].status \in TerminalStatuses
         /\ call.before.batchImages[i].status = "error"
              => store.batchImages[i].status = "error"

\* updateBatchImageStatus was asked to set a cropped image to processing, or
\* an errored image to cropped
C33_Witness ==
  /\ call.action = "updateBatchImageStatus"
  /\ FindImage(call.before.batchImages, call.id) # 0
  /\ LET old == call.before.batchImages[FindImage(call.before.batchImages, call.id)].status
     IN \/ old = "cropped" /\ call.status = "processing"
        \/ old = "error" /\ call.status = "cropped"

\* the batch runs under way: processBatch calls that have passed the guard of
\* line 267 and whose tasks are not yet all created and answered
RunsUnderWay ==
  Len(stale)
  + (IF pc \in {"preparing", "detached"} \/ cropTaskQueue # <<>>
        \/ activeWorkersCount > 0
     THEN 1 ELSE 0)

\* C34: at most one batch run is in progress at a time: a processBatch call
\* made while another run is under way starts no second run.
C34_AtMostOneRun == RunsUnderWay <= 1

\* C35: startBatchProcessing sets every image, whatever its previous status,
\* to pending with no outputs, skip reason or error message, resets
\* totalIndividualCropsMade, successfullyCroppedImageCount and
\* skippedImageInfos, and leaves the list of images as it was.
C35_StartResetsRecords ==
  call.action = "startBatchProcessing" =>
    /\ Len(store.batchImages) = Len(call.before.batchImages)
    /\ \A i \in 1..Len(store.batchImages) :
         store.batchImages[i] =
           [id |-> call.before.batchImages[i].id,
            name |-> call.before.batchImages[i].name,
            status |-> "pending", croppedBlobs |-> <<>>,
            skippedReason |-> NoText, errorMessage |-> NoText]
    /\ store.totalIndividualCropsMade = 0
    /\ store.successfullyCroppedImageCount = 0
    /\ store.skippedImageInfos = <<>>

\* startBatchProcessing ran on a store with an errored image that has an
\* output, a skipped image with its reason, and a non-empty summary
C35_Witness ==
  /\ call.action = "startBatchProcessing"
  /\ call.before.totalIndividualCropsMade > 0
  /\ call.before.skippedImageInfos # <<>>
  /\ \E i \in 1..Len(call.before.batchImages) :
       /\ call.before.batchImages[i].status = "error"
       /\ call.before.batchImages[i].croppedBlobs # <<>>
       /\ call.before.batchImages[i].errorMessage # NoText
  /\ \E i \in 1..Len(call.before.batchImages) :
       /\ call.before.batchImages[i].status = "skipped"
       /\ call.before.batchImages[i].skippedReason # NoText
  /\ store.isProcessingBatch

\* C36: in every reachable state totalIndividualCropsMade equals the sum of
\* the croppedBlobs lengths over all images of the batch.
C36_TotalIsSumOfOutputs ==
  store.totalIndividualCropsMade = OutputCount(store.batchImages)

\* a completed run with outputs on two images, one of them in error
C36_Witness ==
  /\ BatchCompleted
  /\ store.totalIndividualCropsMade >= 2
  /\ \E i, j \in 1..Len(store.batchImages) :
       /\ i # j
       /\ store.batchImages[i].croppedBlobs # <<>>
       /\ store.batchImages[j].croppedBlobs # <<>>
       /\ store.batchImages[j].status = "error"

\* C37: in every reachable state an image with status cropped has at least
\* one cropped output and an image with status skipped has none.
C37_StatusMatchesOutputs ==
  \A i \in 1..Len(store.batchImages) :
     /\ store.batchImages[i].status = "cropped"
          => Len(store.batchImages[i].croppedBlobs) >= 1
     /\ store.batchImages[i].status = "skipped"
          => Len(store.batchImages[i].croppedBlobs) = 0

\* C39: the entries of the download set have pairwise distinct names, also
\* when two images of the batch have the same file name.
C39_DistinctEntryNames ==
  zipped.made =>
    \A n, o \in 1..Len(zipped.files) :
       zipped.files[n].filename = zipped.files[o].filename => n = o

\* the component was unmounted while the store's flag of a run was set
TornDownMidRun == pc \in {"unmounted", "detached"} /\ store.isProcessingBatch

\* C38: after a batch run is torn down mid-run the processing flag does not
\* stay set forever: a state is reached in which isProcessingBatch is false,
\* so that a new processBatch passes the guard.
C38_FlagIsReleased == TornDownMidRun ~> ~store.isProcessingBatch

\* C40: in every reachable state activeWorkersCount is non-negative and is
\* the number of tasks posted to a worker whose result or fault has not yet
\* been handled, also when an error event and a result message both occur
\* for one task.
C40_CountIsOutstanding ==
  activeWorkersCount >= 0 /\ InFlight = activeWorkersCount

====
